---- MODULE Spec2Model ----
(***************************************************************************)
(* State-machine model of the colour tool of this repository (the script   *)
(* that follows the README text in src/README.md): palette extraction      *)
(* from an uploaded image, colour-scheme generation and the WCAG contrast  *)
(* check.                                                                  *)
(*                                                                         *)
(* Strings the code builds character by character (hex colours, bucket     *)
(* keys, rgb(...) texts) are sequences of one-character strings, so that   *)
(* formatting and parsing are computed and not assumed.  IEEE doubles are  *)
(* modelled by exact rationals <<numerator, denominator>>.                 *)
(*                                                                         *)
(* Each tool has its own specification (PaletteSpec, SchemeSpec,           *)
(* ContrastSpec, ColorContrastSpec, ConversionSpec): the tools share no    *)
(* state, and a specification leaves the variables of the other tools at   *)
(* their initial values.  TabSpec models class TabManager of               *)
(* src/TabManager.js; ReloadSpec is the same instance with createTab,      *)
(* activateTab and closeTab as its only operations.                        *)
(***************************************************************************)
EXTENDS Integers, Sequences, FiniteSets, TLC

VARIABLES
    uploadedImage,      \* pixels of the <img> element, row-major, each <<r, g, b, a>>
    sortedColors,       \* extractColors' local sortedColors of the last call
    extractedColors,    \* global extractedColors: sequence of [hex, rgb]
    dominantColor,      \* hex text shown in #dominantColor (<<>>: nothing shown yet)
    dominantTextColor,  \* text colour of #dominantColor, from getContrastColor
    extractResult,      \* "none", "ok" or "TypeError": how the last extractColors ended
    extractedImage,     \* the image the last extractColors call was given
    baseColor,          \* value of the #baseColor input
    schemeType,         \* value of the #schemeType select
    currentScheme,      \* global currentScheme: sequence of [hex, name]
    schemeCalls,        \* arguments of the hslToHex calls of the last generateScheme
    schemeInfoText,     \* description shown in #schemeInfo ("undefined" if none)
    schemeResult,       \* "none" or "ok": how the last generateScheme ended
    schemeInput,        \* [hex, type] the last generateScheme call read
    ratio,              \* contrast ratio the pass flags are computed from
    passFlags,          \* [aaNormal, aaLarge, aaaNormal, aaaLarge] shown by checkContrast
    foreground,         \* value of the #fgColor input
    background,         \* value of the #bgColorContrast input
    fgLum,              \* checkContrast's local fgLum of the last call on two colours
    bgLum,              \* checkContrast's local bgLum of the last call on two colours
    ratioDisplay,       \* text shown in #contrastRatio: ratio.toFixed(2)
    contrastInput,      \* <<foreground, background>> the last checkContrast call read
    convInput,          \* a hex colour text given to the conversions
    convChannels,       \* its channels as parsed by parseInt(.., 16) (<<>>: not parsed)
    convHex,            \* rgbToHex of the parsed channels (<<>>: not rendered)
    convHsl,            \* hexToHsl of the text (<<>>: not converted)
    convBack,           \* hslToHex of that HSL value (<<>>: not converted back)
    tabs,               \* TabManager.tabs: sequence of tab objects
    activeTabId,        \* TabManager.activeTabId: an id or Null
    stored,             \* localStorage value under storageKey: Absent or a JSON text
    windows,            \* ids of the opened windows that have not been closed
    nextId,             \* number of ids generateTabId has generated
    queue,              \* microtask queue: the suspended async calls, oldest first
    clearCalls,         \* the clearAllTabs calls so far: [ids, outcome] each
    closedEvents,       \* per id, the number of tabClosed events dispatched
    mirror,             \* the `id` of each entry of the list the example listeners keep
    dispatched,         \* events dispatched by the last step: <<name, id>> each
    lastCall,           \* the last step: [op, id, outcome, saved, count]
    calls               \* number of API calls so far

paletteVars == <<uploadedImage, sortedColors, extractedColors, dominantColor,
                 dominantTextColor, extractResult, extractedImage>>
schemeVars == <<baseColor, schemeType, currentScheme, schemeCalls, schemeInfoText,
                schemeResult, schemeInput>>
contrastVars == <<ratio, passFlags, foreground, background, fgLum, bgLum,
                  ratioDisplay, contrastInput>>
conversionVars == <<convInput, convChannels, convHex, convHsl, convBack>>
tabVars == <<tabs, activeTabId, stored, windows, nextId, queue, clearCalls,
             closedEvents, mirror, dispatched, lastCall, calls>>
vars == <<paletteVars, schemeVars, contrastVars, conversionVars, tabVars>>

----------------------------------------------------------------------------
(* Bounds of the model. *)

\* longest sequence of freely chosen sampled pixels of an uploaded image
MaxSamples == 3

\* largest number of distinct buckets of an uploaded image
MaxBuckets == 12

\* largest denominator of the contrast ratios the flags are computed for
MaxDenominator == 6

----------------------------------------------------------------------------
(* Program constants. *)

\* for (...; i += 40): byte offset between two sampled pixels
SampleStride == 40

\* if (alpha < 128) continue
AlphaThreshold == 128

\* Math.round(r / 16) * 16
BucketSize == 16

\* sortedColors.slice(0, 10)
TopCount == 10

\* if (canvas.width * canvas.height > 250000)
MaxArea == 250000

----------------------------------------------------------------------------
(* Number formatting and parsing. *)

HexDigits == <<"0", "1", "2", "3", "4", "5", "6", "7",
               "8", "9", "a", "b", "c", "d", "e", "f">>

\* Number.prototype.toString(radix) of a non-negative integer
RECURSIVE ToStringRadix(_, _)
ToStringRadix(x, radix) ==
    IF x < radix
    THEN <<HexDigits[x + 1]>>
    ELSE ToStringRadix(x \div radix, radix) \o <<HexDigits[(x % radix) + 1]>>

\* the digits parseInt accepts besides the lowercase ones
UpperHexDigits == <<"0", "1", "2", "3", "4", "5", "6", "7",
                    "8", "9", "A", "B", "C", "D", "E", "F">>

\* value of one digit character, in either case; -1 for a character that is no
\* hex digit
DigitValue(ch) ==
    IF \E k \in 1..16 : HexDigits[k] = ch
    THEN (CHOOSE k \in 1..16 : HexDigits[k] = ch) - 1
    ELSE IF \E k \in 1..16 : UpperHexDigits[k] = ch
         THEN (CHOOSE k \in 1..16 : UpperHexDigits[k] = ch) - 1
         ELSE -1

\* parseInt(text, radix) / Number(text) of a text of digits
RECURSIVE ParseIntRadix(_, _)
ParseIntRadix(text, radix) ==
    IF Len(text) = 0
    THEN 0
    ELSE ParseIntRadix(SubSeq(text, 1, Len(text) - 1), radix) * radix
         + DigitValue(text[Len(text)])

\* String.prototype.slice(from, to) with 0-based from, exclusive to
Slice(text, from, to) ==
    SubSeq(text, from + 1, IF to > Len(text) THEN Len(text) ELSE to)

\* String.prototype.split(','): the parts between the commas
RECURSIVE SplitComma(_)
SplitComma(text) ==
    IF \A k \in 1..Len(text) : text[k] # ","
    THEN <<text>>
    ELSE LET at == CHOOSE k \in 1..Len(text) :
                      text[k] = "," /\ \A j \in 1..(k - 1) : text[j] # ","
         IN <<SubSeq(text, 1, at - 1)>>
            \o SplitComma(SubSeq(text, at + 1, Len(text)))

\* a rendering that does not pad a one-digit channel
rgbToHexUnpadded(r, g, b) ==
    <<"#">> \o ToStringRadix(r, 16) \o ToStringRadix(g, 16) \o ToStringRadix(b, 16)

\* function rgbToHex(r, g, b)
rgbToHex(r, g, b) ==
    LET Pad(x) == LET hex == ToStringRadix(x, 16)
                  IN IF Len(hex) = 1 THEN <<"0">> \o hex ELSE hex
    IN <<"#">> \o Pad(r) \o Pad(g) \o Pad(b)

\* `rgb(${c.r}, ${c.g}, ${c.b})`
RgbText(r, g, b) ==
    <<"r", "g", "b", "(">> \o ToStringRadix(r, 10) \o <<",", " ">>
        \o ToStringRadix(g, 10) \o <<",", " ">> \o ToStringRadix(b, 10) \o <<")">>

\* the three channels getContrastColor / hexToHsl / getLuminance read from a hex text
HexChannels(hex) ==
    <<ParseIntRadix(Slice(hex, 1, 3), 16),
      ParseIntRadix(Slice(hex, 3, 5), 16),
      ParseIntRadix(Slice(hex, 5, 7), 16)>>

\* function getContrastColor(hex): luminance > 0.5, with luminance =
\* (0.299 r + 0.587 g + 0.114 b) / 255, in thousandths
getContrastColor(hex) ==
    LET c == HexChannels(hex)
    IN IF 299 * c[1] + 587 * c[2] + 114 * c[3] > 127500
       THEN <<"#", "0", "0", "0", "0", "0", "0">>
       ELSE <<"#", "f", "f", "f", "f", "f", "f">>

----------------------------------------------------------------------------
(* Palette extraction: function extractColors(imgElement). *)

\* imageData[i] of the canvas the image is drawn on, i a 0-based byte offset
ImageByte(image, i) == image[(i \div 4) + 1][(i % 4) + 1]

\* Math.round(v / 16) * 16: Math.round rounds halves up
Quantize(v) == ((2 * v + BucketSize) \div (2 * BucketSize)) * BucketSize

\* `${qr},${qg},${qb}`
BucketKey(qr, qg, qb) ==
    ToStringRadix(qr, 10) \o <<",">> \o ToStringRadix(qg, 10) \o <<",">>
        \o ToStringRadix(qb, 10)

\* colorMap[key] = (colorMap[key] || 0) + 1 on an object whose entries are
\* enumerated in the order their keys were first set
CountKey(colorMap, key) ==
    IF \E k \in 1..Len(colorMap) : colorMap[k].key = key
    THEN [k \in 1..Len(colorMap) |->
            IF colorMap[k].key = key
            THEN [colorMap[k] EXCEPT !.count = @ + 1]
            ELSE colorMap[k]]
    ELSE Append(colorMap, [key |-> key, count |-> 1])

\* a threshold test that also skips alpha 128
SkipsPixelInclusive(alpha) == alpha <= AlphaThreshold

\* if (alpha < 128) continue
SkipsPixel(alpha) == alpha < AlphaThreshold

\* i += 40
NextOffset(i) == i + SampleStride

\* the sampling loop, from byte offset i on
RECURSIVE SampleLoop(_, _, _)
SampleLoop(image, i, colorMap) ==
    IF ~(i < 4 * Len(image))
    THEN colorMap
    ELSE LET r == ImageByte(image, i)
             g == ImageByte(image, i + 1)
             b == ImageByte(image, i + 2)
             alpha == ImageByte(image, i + 3)
         IN IF SkipsPixel(alpha)
            THEN SampleLoop(image, NextOffset(i), colorMap)
            ELSE SampleLoop(image, NextOffset(i),
                            CountKey(colorMap,
                                     BucketKey(Quantize(r), Quantize(g), Quantize(b))))

\* where a stable descending sort puts entry e among the sorted entries s
RECURSIVE InsertDescending(_, _)
InsertDescending(s, e) ==
    IF Len(s) = 0
    THEN <<e>>
    ELSE IF s[Len(s)].count >= e.count
         THEN Append(s, e)
         ELSE Append(InsertDescending(SubSeq(s, 1, Len(s) - 1), e), s[Len(s)])

\* a sort that puts an entry ahead of the earlier entries of its count
RECURSIVE SortUnstable(_)
SortUnstable(entries) ==
    IF Len(entries) = 0
    THEN <<>>
    ELSE LET s == SortUnstable(SubSeq(entries, 1, Len(entries) - 1))
             e == entries[Len(entries)]
             n == Cardinality({k \in 1..Len(s) : s[k].count > e.count})
         IN SubSeq(s, 1, n) \o <<e>> \o SubSeq(s, n + 1, Len(s))

\* Object.entries(colorMap).sort((a, b) => b[1] - a[1]): Array.prototype.sort is stable
RECURSIVE SortByFrequency(_)
SortByFrequency(entries) ==
    IF Len(entries) = 0
    THEN <<>>
    ELSE InsertDescending(SortByFrequency(SubSeq(entries, 1, Len(entries) - 1)),
                          entries[Len(entries)])

\* .map(([color, count]) => { const [r, g, b] = color.split(',').map(Number); ... })
ParseEntry(e) ==
    LET parts == SplitComma(e.key)
    IN [r |-> ParseIntRadix(parts[1], 10),
        g |-> ParseIntRadix(parts[2], 10),
        b |-> ParseIntRadix(parts[3], 10),
        count |-> e.count]

SortedColorsOf(image) ==
    LET sorted == SortByFrequency(SampleLoop(image, 0, <<>>))
    IN [k \in 1..Len(sorted) |-> ParseEntry(sorted[k])]

\* a palette that is not cut to ten entries
TopColorsAll(sorted) == sorted

\* sortedColors.slice(0, 10)
TopColors(sorted) ==
    SubSeq(sorted, 1, IF Len(sorted) < TopCount THEN Len(sorted) ELSE TopCount)

\* .map(c => ({ hex: rgbToHex(c.r, c.g, c.b), rgb: `rgb(${c.r}, ${c.g}, ${c.b})` }))
PaletteEntry(c) == [hex |-> rgbToHex(c.r, c.g, c.b), rgb |-> RgbText(c.r, c.g, c.b)]

----------------------------------------------------------------------------
(* The images the model uploads. *)

\* pixels at the sampled offsets: white (quantizes to 256), alpha exactly at and
\* just below the threshold, two pixels of one bucket, a transparent pixel
SamplePixels ==
    {<<255, 255, 255, 255>>, <<200, 100, 8, 128>>, <<200, 100, 8, 127>>,
     <<16, 32, 48, 255>>, <<20, 30, 50, 200>>, <<0, 0, 0, 0>>}

\* pixels between the sampled offsets
FillerPixels == {<<16, 32, 48, 255>>, <<0, 0, 0, 0>>}

\* number of pixels after the last sampled one: none, or a full gap
TailLengths == {0, (SampleStride \div 4) - 1}

\* the image whose sampled pixels are `samples`, with `filler` in between and
\* `tail` more pixels at the end
Spread(samples, filler, tail) ==
    LET gap == SampleStride \div 4
        n == gap * (Len(samples) - 1) + 1 + tail
    IN [p \in 1..n |-> IF (p - 1) % gap = 0 THEN samples[((p - 1) \div gap) + 1]
                                            ELSE filler]

\* k-th of the pairwise distinct buckets of the many-coloured images
WideColor(k) == <<16 * k, 32, 64, 255>>

SmallImages ==
    {Spread(s, f, t) : s \in UNION {[1..n -> SamplePixels] : n \in 1..MaxSamples},
                       f \in FillerPixels, t \in TailLengths}

\* n distinct buckets in order, then one more sample of the j-th (j = 0: none)
WideImages ==
    {Spread([k \in 1..n |-> WideColor(k)]
              \o (IF j = 0 THEN <<>> ELSE <<WideColor(j)>>),
            <<0, 0, 0, 0>>, 0) : n \in 1..MaxBuckets, j \in 0..MaxBuckets}

Images == SmallImages \cup WideImages

\* images uploaded after a first extraction
ReuploadImages ==
    {<<<<0, 0, 0, 0>>>>, <<<<255, 255, 255, 255>>>>,
     Spread(<<<<200, 100, 8, 128>>, <<16, 32, 48, 255>>>>, <<16, 32, 48, 255>>, 0)}

----------------------------------------------------------------------------
(* Initial state: the page as loaded. *)

NoText == <<>>

InitPalette ==
    /\ uploadedImage = <<>>
    /\ sortedColors = <<>>
    /\ extractedColors = <<>>
    /\ dominantColor = NoText
    /\ dominantTextColor = NoText
    /\ extractResult = "none"
    /\ extractedImage = <<>>

\* the colour input shows black and the select its first option; no scheme yet
InitScheme ==
    /\ baseColor = <<"#", "0", "0", "0", "0", "0", "0">>
    /\ schemeType = "complementary"
    /\ currentScheme = <<>>
    /\ schemeCalls = <<>>
    /\ schemeInfoText = ""
    /\ schemeResult = "none"
    /\ schemeInput = <<>>

\* no contrast checked yet
InitContrast ==
    /\ ratio = <<1, 1>>
    /\ passFlags = <<>>
    /\ foreground = <<"#", "0", "0", "0", "0", "0", "0">>
    /\ background = <<"#", "0", "0", "0", "0", "0", "0">>
    /\ fgLum = <<0, 1>>
    /\ bgLum = <<0, 1>>
    /\ ratioDisplay = NoText
    /\ contrastInput = <<>>

\* no text given to the conversions
InitConversion ==
    /\ convInput = NoText
    /\ convChannels = <<>>
    /\ convHex = NoText
    /\ convHsl = <<>>
    /\ convBack = NoText

\* null and undefined of JavaScript.  The values of the TabManager model are
\* written as their JSON text: "true", "false", "tab_1", ...
Null == "null"
Undefined == "undefined"

\* id of the tab a previous session stored, the ids generateTabId generates in
\* this session in the order it generates them, an id of an imported tab and an
\* id no tab has
StoredIds == <<"tab_1">>
GeneratedIds == <<"tab_3", "tab_4", "tab_5", "tab_6">>
ForeignId == "tab_9"
UnknownId == "tab_0"
TabIds ==
    {StoredIds[k] : k \in 1..Len(StoredIds)}
        \cup {GeneratedIds[k] : k \in 1..Len(GeneratedIds)} \cup {ForeignId}

\* localStorage.getItem(storageKey): null for a key that was never set,
\* otherwise a text, which is the JSON of an array (items), the JSON of
\* something else, or no JSON at all
AbsentItem == [text |-> "absent", items |-> <<>>]
GarbageItem == [text |-> "garbage", items |-> <<>>]
ObjectItem == [text |-> "object", items |-> <<>>]
ArrayItem(items) == [text |-> "array", items |-> items]

\* no call made yet; count is the number importTabs returned, 0 for any other
\* step
NoCall ==
    [op |-> "none", id |-> Null, outcome |-> "none", saved |-> "none", count |-> 0]

\* no TabManager constructed, nothing stored
InitTabs ==
    /\ tabs = <<>>
    /\ activeTabId = Null
    /\ stored = AbsentItem
    /\ windows = {}
    /\ nextId = 0
    /\ queue = <<>>
    /\ clearCalls = <<>>
    /\ closedEvents = [id \in TabIds |-> 0]
    /\ mirror = <<>>
    /\ dispatched = <<>>
    /\ lastCall = NoCall
    /\ calls = 0

----------------------------------------------------------------------------
(* Actions of the palette extractor. *)

\* handleImageUpload(file) and its reader.onload: the image element shows the
\* file and the extract button is enabled; nothing extracted so far is touched
HandleImageUpload(image) ==
    /\ image \in (IF extractResult = "none" /\ uploadedImage = <<>>
                   THEN Images ELSE ReuploadImages)
    /\ uploadedImage' = image
    /\ UNCHANGED <<sortedColors, extractedColors, dominantColor, dominantTextColor,
                   extractResult, extractedImage>>
    /\ UNCHANGED <<schemeVars, contrastVars, conversionVars, tabVars>>

\* click on #extractBtn: extractColors(uploadedImage).  With no bucket,
\* sortedColors[0] is undefined and reading dominant.r throws a TypeError before
\* anything is assigned or displayed.
ExtractColors ==
    /\ uploadedImage # <<>>
    /\ Len(uploadedImage) <= MaxArea
    /\ LET sorted == SortedColorsOf(uploadedImage)
       IN /\ sortedColors' = sorted
          /\ IF Len(sorted) = 0
             THEN /\ extractResult' = "TypeError"
                  /\ UNCHANGED <<extractedColors, dominantColor, dominantTextColor>>
             ELSE LET dominant == sorted[1]
                      dominantHex == rgbToHex(dominant.r, dominant.g, dominant.b)
                      top == TopColors(sorted)
                  IN /\ extractedColors' = [k \in 1..Len(top) |-> PaletteEntry(top[k])]
                     /\ dominantColor' = dominantHex
                     /\ dominantTextColor' = getContrastColor(dominantHex)
                     /\ extractResult' = "ok"
    /\ extractedImage' = uploadedImage
    /\ UNCHANGED uploadedImage
    /\ UNCHANGED <<schemeVars, contrastVars, conversionVars, tabVars>>

PaletteInit == InitPalette /\ InitScheme /\ InitContrast /\ InitConversion /\ InitTabs

PaletteNext ==
    \/ \E image \in Images : HandleImageUpload(image)
    \/ ExtractColors

PaletteSpec == PaletteInit /\ [][PaletteNext]_vars

----------------------------------------------------------------------------
(* Exact rational arithmetic for the code's floating-point values:          *)
(* <<n, d>> with d > 0 and n, d coprime.                                    *)

\* the single element of a singleton set.  The({F(v) : v \in {e}}) computes e
\* once and F of its value, like a const declaration followed by its uses.
The(S) == CHOOSE x \in S : TRUE

Abs(x) == IF x < 0 THEN -x ELSE x

RECURSIVE GCD(_, _)
GCD(a, b) == IF b = 0 THEN a ELSE The({GCD(p[1], p[2]) : p \in {<<b, a % b>>}})

Rat(n, d) ==
    The({<<(IF p[2] < 0 THEN -1 ELSE 1) * (p[1] \div p[3]),
           (IF p[2] < 0 THEN -1 ELSE 1) * (p[2] \div p[3])>> :
            p \in {<<q[1], q[2], GCD(Abs(q[1]), Abs(q[2]))>> : q \in {<<n, d>>}}})

Whole(n) == <<n, 1>>

RatAdd(x, y) ==
    The({Rat(p[1][1] * p[2][2] + p[2][1] * p[1][2], p[1][2] * p[2][2]) :
            p \in {<<x, y>>}})
RatSub(x, y) ==
    The({Rat(p[1][1] * p[2][2] - p[2][1] * p[1][2], p[1][2] * p[2][2]) :
            p \in {<<x, y>>}})
RatMul(x, y) ==
    The({<<p[1][1] * p[2][1], p[1][2] * p[2][2]>> :
            p \in {<<Rat(q[1][1], q[2][2]), Rat(q[2][1], q[1][2])>> :
                      q \in {<<x, y>>}}})
RatDiv(x, y) == The({RatMul(p[1], Rat(p[2][2], p[2][1])) : p \in {<<x, y>>}})
RatLess(x, y) == \E p \in {<<x, y>>} : p[1][1] * p[2][2] < p[2][1] * p[1][2]
RatLeq(x, y) == \E p \in {<<x, y>>} : p[1][1] * p[2][2] <= p[2][1] * p[1][2]
RatMin(x, y) == The({IF RatLess(p[2], p[1]) THEN p[2] ELSE p[1] : p \in {<<x, y>>}})
RatMax(x, y) == The({IF RatLess(p[1], p[2]) THEN p[2] ELSE p[1] : p \in {<<x, y>>}})

\* largest integer <= x
RatFloor(x) == The({p[1] \div p[2] : p \in {x}})

\* x rounded toward zero
RatTrunc(x) ==
    The({IF p[1] < 0 THEN -((-p[1]) \div p[2]) ELSE p[1] \div p[2] : p \in {x}})

\* x % m of JavaScript: the remainder has the sign of x
JsRemainder(x, m) ==
    The({RatSub(p[1], RatMul(p[2], Whole(RatTrunc(RatDiv(p[1], p[2]))))) :
            p \in {<<x, m>>}})

\* Math.round(x): the nearest integer, halves rounded up
MathRound(x) == RatFloor(RatAdd(x, <<1, 2>>))

----------------------------------------------------------------------------
(* Colour-space conversions of the scheme generator. *)

\* hexToHsl from `const max` on, for the channels r, g, b divided by 255
HslOfExtremes(r, g, b, max, min) ==
    LET l == RatDiv(RatAdd(max, min), Whole(2))
        d == RatSub(max, min)
        s == IF max = min
             THEN Whole(0)
             ELSE IF RatLess(<<1, 2>>, l)
                  THEN RatDiv(d, RatSub(RatSub(Whole(2), max), min))
                  ELSE RatDiv(d, RatAdd(max, min))
        h == IF max = min
             THEN Whole(0)
             ELSE IF max = r
                  THEN RatDiv(RatAdd(RatDiv(RatSub(g, b), d),
                                     Whole(IF RatLess(g, b) THEN 6 ELSE 0)),
                              Whole(6))
                  ELSE IF max = g
                       THEN RatDiv(RatAdd(RatDiv(RatSub(b, r), d), Whole(2)), Whole(6))
                       ELSE RatDiv(RatAdd(RatDiv(RatSub(r, g), d), Whole(4)), Whole(6))
    IN [h |-> RatMul(h, Whole(360)),
        s |-> RatMul(s, Whole(100)),
        l |-> RatMul(l, Whole(100))]

\* function hexToHsl(hex): [h, s, l] with h in degrees, s and l in percent
hexToHsl(hex) ==
    The({HslOfExtremes(c[1], c[2], c[3],
                       RatMax(RatMax(c[1], c[2]), c[3]),
                       RatMin(RatMin(c[1], c[2]), c[3])) :
            c \in {<<Rat(v[1], 255), Rat(v[2], 255), Rat(v[3], 255)>> :
                      v \in {HexChannels(hex)}}})

\* String.prototype.padStart(2, '0')
PadStart2(text) == IF Len(text) < 2 THEN <<"0">> \o text ELSE text

\* f(n) of hslToHex, for h, l and a as hslToHex has them.  Where 255 * color is
\* exactly halfway between two integers the double the engine computes can fall
\* on either side of the half; the exact value modelled here rounds up.
HslChannel(n, h, l, a) ==
    The({PadStart2(ToStringRadix(
                MathRound(RatMul(Whole(255),
                    RatSub(l, RatMul(a,
                        RatMax(RatMin(RatMin(RatSub(k, Whole(3)), RatSub(Whole(9), k)),
                                      Whole(1)),
                               Whole(-1)))))),
                16)) :
            k \in {JsRemainder(RatAdd(Whole(n), RatDiv(h, Whole(30))), Whole(12))}})

\* a conversion that takes green and blue in the other order: f(0), f(4), f(8)
hslToHexSwapped(h, s100, l100) ==
    The({<<"#">> \o HslChannel(0, p[1], p[3], p[4])
                \o HslChannel(4, p[1], p[3], p[4])
                \o HslChannel(8, p[1], p[3], p[4]) :
            p \in {<<q[1], q[2], q[3], RatMul(q[2], RatMin(q[3], RatSub(Whole(1), q[3])))>> :
                      q \in {<<h, RatDiv(s100, Whole(100)), RatDiv(l100, Whole(100))>>}}})

\* function hslToHex(h, s, l)
hslToHex(h, s100, l100) ==
    The({<<"#">> \o HslChannel(0, p[1], p[3], p[4])
                \o HslChannel(8, p[1], p[3], p[4])
                \o HslChannel(4, p[1], p[3], p[4]) :
            p \in {<<q[1], q[2], q[3], RatMul(q[2], RatMin(q[3], RatSub(Whole(1), q[3])))>> :
                      q \in {<<h, RatDiv(s100, Whole(100)), RatDiv(l100, Whole(100))>>}}})

----------------------------------------------------------------------------
(* Scheme generation: function generateScheme(). *)

\* an entry { hex, name } that is the base colour itself: no conversion is called
Plain(hex, name) == [hex |-> hex, name |-> name, converted |-> FALSE]

\* an entry { hex: hslToHex(h, s, l), name }, with the arguments of the call
Converted(h, s, l, name) ==
    The({[hex |-> hslToHex(p[1], p[2], p[3]), name |-> name, converted |-> TRUE,
          h |-> p[1], s |-> p[2], l |-> p[3]] : p \in {<<h, s, l>>}})

\* (hsl.h + offset) % 360
HuePlus(h, offset) == JsRemainder(RatAdd(h, Whole(offset)), Whole(360))

\* (hsl.h - offset) % 360, which is negative for a hue below the offset
HueMinusUnwrapped(h, offset) == JsRemainder(RatSub(h, Whole(offset)), Whole(360))

\* (hsl.h - offset + 360) % 360
HueMinus(h, offset) ==
    JsRemainder(RatAdd(RatSub(h, Whole(offset)), Whole(360)), Whole(360))

\* case 'complementary'
ComplementaryScheme(hex, hsl) ==
    <<Plain(hex, "Base"),
      Converted(HuePlus(hsl.h, 180), hsl.s, hsl.l, "Complementary")>>

\* case 'analogous'
AnalogousScheme(hex, hsl) ==
    <<Converted(HueMinus(hsl.h, 30), hsl.s, hsl.l, "Analogous 1"),
      Converted(HueMinus(hsl.h, 15), hsl.s, hsl.l, "Analogous 2"),
      Plain(hex, "Base"),
      Converted(HuePlus(hsl.h, 15), hsl.s, hsl.l, "Analogous 3"),
      Converted(HuePlus(hsl.h, 30), hsl.s, hsl.l, "Analogous 4")>>

\* case 'triadic'
TriadicScheme(hex, hsl) ==
    <<Plain(hex, "Primary"),
      Converted(HuePlus(hsl.h, 120), hsl.s, hsl.l, "Secondary"),
      Converted(HuePlus(hsl.h, 240), hsl.s, hsl.l, "Tertiary")>>

\* case 'tetradic'
TetradicScheme(hex, hsl) ==
    <<Plain(hex, "Primary"),
      Converted(HuePlus(hsl.h, 90), hsl.s, hsl.l, "Secondary"),
      Converted(HuePlus(hsl.h, 180), hsl.s, hsl.l, "Tertiary"),
      Converted(HuePlus(hsl.h, 270), hsl.s, hsl.l, "Quaternary")>>

\* case 'monochromatic'
MonochromaticScheme(hex, hsl) ==
    <<Converted(hsl.h, hsl.s, Whole(20), "Dark"),
      Converted(hsl.h, hsl.s, Whole(40), "Medium Dark"),
      Plain(hex, "Base"),
      Converted(hsl.h, hsl.s, Whole(70), "Medium Light"),
      Converted(hsl.h, hsl.s, Whole(90), "Light")>>

\* a split-complementary scheme that lacks its last entry
SplitComplementarySchemeShort(hex, hsl) ==
    <<Plain(hex, "Base"),
      Converted(HuePlus(hsl.h, 150), hsl.s, hsl.l, "Split 1")>>

\* case 'split-complementary'
SplitComplementaryScheme(hex, hsl) ==
    <<Plain(hex, "Base"),
      Converted(HuePlus(hsl.h, 150), hsl.s, hsl.l, "Split 1"),
      Converted(HuePlus(hsl.h, 210), hsl.s, hsl.l, "Split 2")>>

\* currentScheme = []; switch (type) { ... }: no case matches an unknown type
SchemeOf(hex, hsl, type) ==
    CASE type = "complementary" -> ComplementaryScheme(hex, hsl)
      [] type = "analogous" -> AnalogousScheme(hex, hsl)
      [] type = "triadic" -> TriadicScheme(hex, hsl)
      [] type = "tetradic" -> TetradicScheme(hex, hsl)
      [] type = "monochromatic" -> MonochromaticScheme(hex, hsl)
      [] type = "split-complementary" -> SplitComplementaryScheme(hex, hsl)
      [] OTHER -> <<>>

\* the keys of updateSchemeInfo's info object
SchemeKinds ==
    {"complementary", "analogous", "triadic", "tetradic", "monochromatic",
     "split-complementary"}

\* info[type] as rendered into #schemeInfo
SchemeInfo(type) ==
    CASE type = "complementary" ->
            "Uses two colors that are opposite each other on the color wheel."
      [] type = "analogous" ->
            "Uses colors that are next to each other on the color wheel."
      [] type = "triadic" ->
            "Uses three colors that are evenly spaced on the color wheel."
      [] type = "tetradic" ->
            "Uses four colors that form a rectangle on the color wheel."
      [] type = "monochromatic" -> "Uses variations of a single color hue."
      [] type = "split-complementary" ->
            "Uses a base color and two colors adjacent to its complementary."
      [] OTHER -> "undefined"

\* channel values of the base colours the model picks
ChannelLevels == {0, 51, 128, 255}

\* values of the colour input: '#' and six lowercase hex digits
BaseColors == {rgbToHex(r, g, b) : r, g, b \in ChannelLevels}

\* colours picked after a first scheme was generated
RepickColors == {rgbToHex(255, 51, 0), rgbToHex(51, 128, 255)}

\* values of the scheme-type select: the six kinds and one that is none of them
SchemeTypes == SchemeKinds \cup {"square"}

\* types selected after a first scheme was generated
ReselectTypes == {"analogous", "square"}

\* the user picks a base colour (the input's value changes)
BaseColorInput(hex) ==
    /\ hex \in (IF schemeResult = "none" THEN BaseColors ELSE RepickColors)
    /\ baseColor' = hex
    /\ UNCHANGED <<schemeType, currentScheme, schemeCalls, schemeInfoText, schemeResult,
                   schemeInput>>
    /\ UNCHANGED <<paletteVars, contrastVars, conversionVars, tabVars>>

\* the scheme-type select takes another value
SchemeTypeChange(type) ==
    /\ type \in (IF schemeResult = "none" THEN SchemeTypes ELSE ReselectTypes)
    /\ schemeType' = type
    /\ UNCHANGED <<baseColor, currentScheme, schemeCalls, schemeInfoText, schemeResult,
                   schemeInput>>
    /\ UNCHANGED <<paletteVars, contrastVars, conversionVars, tabVars>>

\* click on #generateBtn: generateScheme(), with displayScheme and updateSchemeInfo.
\* Nothing in it throws or reports an error, whatever the type.
GenerateScheme ==
    \E hex \in {baseColor}, type \in {schemeType} :
      \E hsl \in {hexToHsl(hex)} :
        \E scheme \in {SchemeOf(hex, hsl, type)} :
           /\ currentScheme' = [k \in 1..Len(scheme) |->
                                    [hex |-> scheme[k].hex, name |-> scheme[k].name]]
           /\ schemeCalls' = scheme
           /\ schemeInfoText' = SchemeInfo(type)
           /\ schemeResult' = "ok"
           /\ schemeInput' = [hex |-> hex, type |-> type]
           /\ UNCHANGED <<baseColor, schemeType>>
           /\ UNCHANGED <<paletteVars, contrastVars, conversionVars, tabVars>>

SchemeInit == InitPalette /\ InitScheme /\ InitContrast /\ InitConversion /\ InitTabs

SchemeNext ==
    \/ \E hex \in BaseColors : BaseColorInput(hex)
    \/ \E type \in SchemeTypes : SchemeTypeChange(type)
    \/ GenerateScheme

SchemeSpec == SchemeInit /\ [][SchemeNext]_vars

----------------------------------------------------------------------------
(* Contrast check: the pass flags checkContrast derives from the ratio. *)

\* a comparison that leaves the threshold itself out
Exceeds(x, threshold) == RatLess(threshold, x)

\* ratio >= threshold
AtLeast(x, threshold) == RatLeq(threshold, x)

\* the four '✓ PASS' / '✗ FAIL' metrics of checkContrast
PassFlags(r) ==
    [aaNormal |-> AtLeast(r, <<9, 2>>),
     aaLarge |-> AtLeast(r, Whole(3)),
     aaaNormal |-> AtLeast(r, Whole(7)),
     aaaLarge |-> AtLeast(r, <<9, 2>>)]

\* Number.prototype.toFixed(2) of a non-negative number: the nearest number of
\* hundredths, the upper one when halfway, with two digits after the point
ToFixed2(x) ==
    The({ToStringRadix(h \div 100, 10) \o <<".">>
            \o ToStringRadix((h % 100) \div 10, 10) \o ToStringRadix(h % 10, 10) :
            h \in {RatFloor(RatAdd(RatMul(x, Whole(100)), <<1, 2>>))}})

\* the ratios n / d from 1 to 21 with a denominator up to MaxDenominator
Ratios == UNION {{Rat(n, d) : n \in d..(21 * d)} : d \in 1..MaxDenominator}

\* click on #checkContrastBtn: checkContrast(), from the ratio r it computes from
\* the luminances of the two colours on: the four metrics are written for r
CheckContrast(r) ==
    /\ r \in Ratios
    /\ ratio' = r
    /\ passFlags' = PassFlags(r)
    /\ ratioDisplay' = ToFixed2(r)
    /\ UNCHANGED <<foreground, background, fgLum, bgLum, contrastInput>>
    /\ UNCHANGED <<paletteVars, schemeVars, conversionVars, tabVars>>

ContrastInit == InitPalette /\ InitScheme /\ InitContrast /\ InitConversion /\ InitTabs

ContrastNext == \E r \in Ratios : CheckContrast(r)

ContrastSpec == ContrastInit /\ [][ContrastNext]_vars

----------------------------------------------------------------------------
(* Contrast check of two colours: checkContrast() with getLuminance(hex). *)

\* v <= 0.03928 ? v / 12.92 : Math.pow((v + 0.055) / 1.055, 2.4) for v = c / 255,
\* c = 0..255, in thousandths rounded to the nearest (Math.pow has no exact
\* rational value; 0 and 255 give exactly 0 and 1)
LinearThousandths ==
    <<
         0,    0,    1,    1,    1,    2,    2,    2,    2,    3,    3,    3,    4,    4,    4,    5,
         5,    6,    6,    7,    7,    7,    8,    9,    9,   10,   10,   11,   12,   12,   13,   14,
        14,   15,   16,   17,   18,   19,   19,   20,   21,   22,   23,   24,   25,   26,   27,   28,
        30,   31,   32,   33,   34,   36,   37,   38,   40,   41,   42,   44,   45,   47,   48,   50,
        51,   53,   54,   56,   58,   60,   61,   63,   65,   67,   68,   70,   72,   74,   76,   78,
        80,   82,   84,   87,   89,   91,   93,   95,   98,  100,  102,  105,  107,  109,  112,  114,
       117,  120,  122,  125,  127,  130,  133,  136,  138,  141,  144,  147,  150,  153,  156,  159,
       162,  165,  168,  171,  175,  178,  181,  184,  188,  191,  195,  198,  202,  205,  209,  212,
       216,  220,  223,  227,  231,  235,  238,  242,  246,  250,  254,  258,  262,  266,  270,  275,
       279,  283,  287,  292,  296,  301,  305,  309,  314,  319,  323,  328,  332,  337,  342,  347,
       352,  356,  361,  366,  371,  376,  381,  386,  392,  397,  402,  407,  413,  418,  423,  429,
       434,  440,  445,  451,  456,  462,  468,  474,  479,  485,  491,  497,  503,  509,  515,  521,
       527,  533,  539,  546,  552,  558,  565,  571,  578,  584,  591,  597,  604,  610,  617,  624,
       631,  638,  644,  651,  658,  665,  672,  680,  687,  694,  701,  708,  716,  723,  730,  738,
       745,  753,  761,  768,  776,  784,  791,  799,  807,  815,  823,  831,  839,  847,  855,  863,
       871,  880,  888,  896,  905,  913,  922,  930,  939,  947,  956,  965,  973,  982,  991, 1000
    >>

\* a channel of the map in getLuminance without the gamma expansion: v itself
LinearizedNoGamma(c) == (2000 * c + 255) \div 510

\* the callback of [r, g, b].map(...) in getLuminance, for the channel value c,
\* in thousandths
Linearized(c) == LinearThousandths[c + 1]

\* a luminance that leaves the blue channel out
getLuminanceNoBlue(hex) ==
    The({Rat(2126 * Linearized(c[1]) + 7152 * Linearized(c[2]), 10000000) :
            c \in {HexChannels(hex)}})

\* function getLuminance(hex): a[0] * 0.2126 + a[1] * 0.7152 + a[2] * 0.0722
getLuminance(hex) ==
    The({Rat(2126 * Linearized(c[1]) + 7152 * Linearized(c[2])
                 + 722 * Linearized(c[3]), 10000000) :
            c \in {HexChannels(hex)}})

\* a ratio of foreground to background, whichever is lighter
ContrastRatioUnordered(lumFg, lumBg) ==
    RatDiv(RatAdd(lumFg, <<1, 20>>), RatAdd(lumBg, <<1, 20>>))

\* (Math.max(fgLum, bgLum) + 0.05) / (Math.min(fgLum, bgLum) + 0.05)
ContrastRatio(lumFg, lumBg) ==
    RatDiv(RatAdd(RatMax(lumFg, lumBg), <<1, 20>>),
           RatAdd(RatMin(lumFg, lumBg), <<1, 20>>))

\* values of the two colour inputs: black, white, two mid greys, the greys of
\* ratio about 4.5 and 7 on white, and two primaries
ContrastColors ==
    {rgbToHex(0, 0, 0), rgbToHex(255, 255, 255), rgbToHex(119, 119, 119),
     rgbToHex(136, 136, 136), rgbToHex(118, 118, 118), rgbToHex(89, 89, 89),
     rgbToHex(255, 0, 0), rgbToHex(0, 0, 255)}

\* the user picks a foreground colour
FgColorInput(hex) ==
    /\ hex \in ContrastColors
    /\ foreground' = hex
    /\ UNCHANGED <<ratio, passFlags, background, fgLum, bgLum, ratioDisplay,
                   contrastInput>>
    /\ UNCHANGED <<paletteVars, schemeVars, conversionVars, tabVars>>

\* the user picks a background colour
BgColorInput(hex) ==
    /\ hex \in ContrastColors
    /\ background' = hex
    /\ UNCHANGED <<ratio, passFlags, foreground, fgLum, bgLum, ratioDisplay,
                   contrastInput>>
    /\ UNCHANGED <<paletteVars, schemeVars, conversionVars, tabVars>>

\* click on #checkContrastBtn: checkContrast() on the values of the two inputs
CheckContrastOfInputs ==
    \E lums \in {<<getLuminance(foreground), getLuminance(background)>>} :
      \E r \in {ContrastRatio(lums[1], lums[2])} :
        /\ fgLum' = lums[1]
        /\ bgLum' = lums[2]
        /\ ratio' = r
        /\ ratioDisplay' = ToFixed2(r)
        /\ passFlags' = PassFlags(r)
        /\ contrastInput' = <<foreground, background>>
        /\ UNCHANGED <<foreground, background>>
        /\ UNCHANGED <<paletteVars, schemeVars, conversionVars, tabVars>>

ColorContrastInit == InitPalette /\ InitScheme /\ InitContrast /\ InitConversion /\ InitTabs

ColorContrastNext ==
    \/ \E hex \in ContrastColors : FgColorInput(hex)
    \/ \E hex \in ContrastColors : BgColorInput(hex)
    \/ CheckContrastOfInputs

ColorContrastSpec == ColorContrastInit /\ [][ColorContrastNext]_vars

----------------------------------------------------------------------------
(* The conversions as pure functions of a hex colour text: the parsing that  *)
(* getContrastColor, hexToHsl and getLuminance share, rgbToHex, hexToHsl and *)
(* hslToHex.                                                                 *)

\* two-digit channel texts: lowercase, uppercase and mixed case, with and
\* without a leading zero
ChannelTexts ==
    {<<"0", "0">>, <<"0", "1">>, <<"0", "a">>, <<"3", "3">>, <<"7", "f">>,
     <<"8", "0">>, <<"f", "e">>, <<"f", "f">>, <<"0", "A">>, <<"F", "F">>,
     <<"F", "e">>}

\* '#' and six hex digits
ConversionInputs == {<<"#">> \o r \o g \o b : r, g, b \in ChannelTexts}

\* parseInt(hex.slice(1, 3), 16), parseInt(hex.slice(3, 5), 16),
\* parseInt(hex.slice(5, 7), 16) of the text
ParseChannels ==
    /\ convChannels = <<>>
    /\ convChannels' = HexChannels(convInput)
    /\ UNCHANGED <<convInput, convHex, convHsl, convBack>>
    /\ UNCHANGED <<paletteVars, schemeVars, contrastVars, tabVars>>

\* rgbToHex(r, g, b) of the parsed channels
RenderChannels ==
    /\ convChannels # <<>>
    /\ convHex = NoText
    /\ convHex' = rgbToHex(convChannels[1], convChannels[2], convChannels[3])
    /\ UNCHANGED <<convInput, convChannels, convHsl, convBack>>
    /\ UNCHANGED <<paletteVars, schemeVars, contrastVars, tabVars>>

\* hexToHsl(hex) of the text
ConvertToHsl ==
    /\ convHsl = <<>>
    /\ convHsl' = hexToHsl(convInput)
    /\ UNCHANGED <<convInput, convChannels, convHex, convBack>>
    /\ UNCHANGED <<paletteVars, schemeVars, contrastVars, tabVars>>

\* hslToHex(h, s, l) of the value hexToHsl returned
ConvertBack ==
    /\ convHsl # <<>>
    /\ convBack = NoText
    /\ convBack' = hslToHex(convHsl.h, convHsl.s, convHsl.l)
    /\ UNCHANGED <<convInput, convChannels, convHex, convHsl>>
    /\ UNCHANGED <<paletteVars, schemeVars, contrastVars, tabVars>>

ConversionInit ==
    /\ InitPalette /\ InitScheme /\ InitContrast /\ InitTabs
    /\ convInput \in ConversionInputs
    /\ convChannels = <<>>
    /\ convHex = NoText
    /\ convHsl = <<>>
    /\ convBack = NoText

ConversionNext ==
    \/ ParseChannels
    \/ RenderChannels
    \/ ConvertToHsl
    \/ ConvertBack

ConversionSpec == ConversionInit /\ [][ConversionNext]_vars

----------------------------------------------------------------------------
(* class TabManager (src/TabManager.js).  A tab object is a function from    *)
(* its property names to their values.  Of the properties createTab sets,   *)
(* icon, createdAt and updatedAt are left out: no operation reads them.      *)
(* An async method runs up to its first await when it is called; what        *)
(* follows the await is a microtask, queued behind the microtasks that are   *)
(* already waiting.  API calls can come at any moment; a browser event (an   *)
(* opened window closing) is handled only when no microtask is waiting.      *)

\* most ids generateTabId generates in a run
MaxNewTabs == 2

\* most API calls of a run
MaxCalls == 3

\* most clearAllTabs calls of a run
MaxClearCalls == 2

\* obj[key]: undefined for a property the object does not have
Get(obj, key) == IF key \in DOMAIN obj THEN obj[key] ELSE Undefined

\* a test that takes every value for truthy
TruthyAlways(v) == TRUE

\* truthiness of a value, as `!title`, `.filter(Boolean)` and `find(t => t.active)` test it
Truthy(v) == v \notin {"false", Undefined, Null, ""}

\* Object.assign(tab, updates)
ObjectAssign(tab, updates) ==
    [k \in DOMAIN tab \cup DOMAIN updates |->
        IF k \in DOMAIN updates THEN updates[k] ELSE tab[k]]

\* JSON.stringify(this.tabs): a property whose value is undefined is left out
JsonStringify(list) ==
    [i \in 1..Len(list) |->
        [k \in {key \in DOMAIN list[i] : list[i][key] # Undefined} |-> list[i][k]]]

\* the ids of a list of tabs, in order
IdsOf(list) == [i \in 1..Len(list) |-> Get(list[i], "id")]

\* this.tabs.findIndex(t => t.id === tabId), 1-based; 0 for -1
FindIndex(list, tabId) ==
    IF \E i \in 1..Len(list) : Get(list[i], "id") = tabId
    THEN CHOOSE i \in 1..Len(list) :
             /\ Get(list[i], "id") = tabId
             /\ \A j \in 1..(i - 1) : Get(list[j], "id") # tabId
    ELSE 0

\* getTabById(tabId) finds a tab
HasTab(list, tabId) == FindIndex(list, tabId) # 0

\* getActiveTab(): getTabById(this.activeTabId), Null for none
getActiveTab(list, active) ==
    IF HasTab(list, active) THEN list[FindIndex(list, active)] ELSE Null

\* this.tabs.splice(index, 1)
Splice(list, index) == SubSeq(list, 1, index - 1) \o SubSeq(list, index + 1, Len(list))

\* the messages of the other errors, importTabs' up to the colon
TitleAndUrlRequired == "Title and URL are required parameters"
PopupBlocked == "Popup blocked by browser. Please allow popups for this site."
NotAnArray == "tabIds must be an array"
ImportFailed == "Failed to import tabs"

\* the message of the error the id-taking methods throw
NotFound == "Tab with ID not found"

\* a save that writes the list as it was when the method was called
StoredBeforeChange(list, saved) ==
    IF saved THEN ArrayItem(JsonStringify(tabs)) ELSE stored

\* the stored item after saveToStorage() of the list; setItem throws when
\* `saved` is false and the stored item stays as it was
StoredAfter(list, saved) == IF saved THEN ArrayItem(JsonStringify(list)) ELSE stored

\* the storageError event saveToStorage dispatches when setItem throws
SaveEvents(saved) == IF saved THEN <<>> ELSE <<<<"storageError", Null>>>>

SavedText(saved) == IF saved THEN "ok" ELSE "failed"

\* the example listeners, which are given the CustomEvent and use it as the tab:
\* handleTabCreated appends it (its `id` is undefined), handleTabClosed keeps
\* the entries whose id differs from the event's `id`
RECURSIVE MirrorAfter(_, _)
MirrorAfter(list, events) ==
    IF Len(events) = 0
    THEN list
    ELSE MirrorAfter(
             CASE events[1][1] = "tabCreated" -> Append(list, Undefined)
               [] events[1][1] = "tabClosed" ->
                      SelectSeq(list, LAMBDA id : id # Undefined)
               [] OTHER -> list,
             Tail(events))

\* window.dispatchEvent of the events of a step, in order
Dispatch(events) ==
    /\ dispatched' = events
    /\ mirror' = MirrorAfter(mirror, events)
    /\ closedEvents' =
           [id \in TabIds |->
               closedEvents[id]
                   + Cardinality({k \in 1..Len(events) :
                                     events[k] = <<"tabClosed", id>>})]

\* an API call is counted
Counted ==
    /\ calls < MaxCalls
    /\ calls' = calls + 1

\* a method that announces its failure with an event
ThrowsAnnounced(op, tabId, message) ==
    /\ lastCall' = [op |-> op, id |-> tabId, outcome |-> message, saved |-> "none",
                    count |-> 0]
    /\ dispatched' = <<<<"storageError", Null>>>>
    /\ UNCHANGED <<tabs, activeTabId, stored, windows, nextId, queue, clearCalls,
                   closedEvents, mirror>>

\* a method that throws before it changes anything
Throws(op, tabId, message) ==
    /\ lastCall' = [op |-> op, id |-> tabId, outcome |-> message, saved |-> "none",
                    count |-> 0]
    /\ dispatched' = <<>>
    /\ UNCHANGED <<tabs, activeTabId, stored, windows, nextId, queue, clearCalls,
                   closedEvents, mirror>>

\* a close that makes the first remaining tab the active one
ActiveAfterCloseFirst(active, tabId, rest) ==
    IF active = tabId
    THEN (IF Len(rest) > 0 THEN Get(rest[1], "id") ELSE Null)
    ELSE active

\* activeTabId after the tab of id tabId was removed, `rest` being what is left
ActiveAfterClose(active, tabId, rest) ==
    IF active = tabId
    THEN (IF Len(rest) > 0 THEN Get(rest[Len(rest)], "id") ELSE Null)
    ELSE active

\* onTabClosed(tabId): nothing at all for an id that is not in the list
onTabClosed(tabId, saved) ==
    LET index == FindIndex(tabs, tabId)
        rest == Splice(tabs, index)
    IN IF index = 0
       THEN /\ dispatched' = <<>>
            /\ UNCHANGED <<tabs, activeTabId, stored, closedEvents, mirror>>
       ELSE /\ tabs' = rest
            /\ activeTabId' = ActiveAfterClose(activeTabId, tabId, rest)
            /\ stored' = StoredAfter(rest, saved)
            /\ Dispatch(SaveEvents(saved) \o <<<<"tabClosed", tabId>>>>)

\* what onTabClosed(tabId) saved
ClosedSaved(tabId, saved) == IF HasTab(tabs, tabId) THEN SavedText(saved) ELSE "none"

\* ids the model passes to the methods that take one: those of the list and one
\* that is not in it
CallIds == {Get(tabs[i], "id") : i \in 1..Len(tabs)} \cup {UnknownId}

\* updateTab(tabId, updates)
UpdateTab(tabId, updates, saved) ==
    /\ Counted
    /\ tabId \in CallIds
    /\ IF ~HasTab(tabs, tabId)
       THEN Throws("updateTab", tabId, NotFound)
       ELSE LET list == [tabs EXCEPT ![FindIndex(tabs, tabId)] = ObjectAssign(@, updates)]
            IN /\ tabs' = list
               /\ stored' = StoredAfter(list, saved)
               /\ Dispatch(SaveEvents(saved) \o <<<<"tabUpdated", tabId>>>>)
               /\ lastCall' = [op |-> "updateTab", id |-> tabId, outcome |-> "ok",
                               saved |-> SavedText(saved),
                               count |-> 0]
               /\ UNCHANGED <<activeTabId, windows, nextId, queue, clearCalls>>
    /\ UNCHANGED <<paletteVars, schemeVars, contrastVars, conversionVars>>

\* closeTab(tabId): getTabWindow returns null, so no window is closed
CloseTab(tabId, saved) ==
    /\ Counted
    /\ tabId \in CallIds
    /\ IF ~HasTab(tabs, tabId)
       THEN Throws("closeTab", tabId, NotFound)
       ELSE /\ onTabClosed(tabId, saved)
            /\ lastCall' = [op |-> "closeTab", id |-> tabId, outcome |-> "ok",
                            saved |-> SavedText(saved),
                            count |-> 0]
            /\ UNCHANGED <<windows, nextId, queue, clearCalls>>
    /\ UNCHANGED <<paletteVars, schemeVars, contrastVars, conversionVars>>

\* the beforeunload listener openBrowserTab put on an opened window:
\* onTabClosed(tabId) when the window is closed
OnWindowClosed(tabId, saved) ==
    /\ queue = <<>>
    /\ tabId \in windows
    /\ windows' = windows \ {tabId}
    /\ onTabClosed(tabId, saved)
    /\ lastCall' = [op |-> "beforeunload", id |-> tabId, outcome |-> "ok",
                    saved |-> ClosedSaved(tabId, saved),
                    count |-> 0]
    /\ UNCHANGED <<nextId, queue, clearCalls, calls>>
    /\ UNCHANGED <<paletteVars, schemeVars, contrastVars, conversionVars>>

\* this.tabs.forEach(t => t.active = (t.id === tabId))
ActivateOnly(list, tabId) ==
    [i \in 1..Len(list) |->
        ObjectAssign(list[i],
                     [active |-> IF Get(list[i], "id") = tabId THEN "true" ELSE "false"])]

\* activateTab(tabId)
ActivateTab(tabId, saved) ==
    /\ Counted
    /\ tabId \in CallIds
    /\ IF ~HasTab(tabs, tabId)
       THEN Throws("activateTab", tabId, NotFound)
       ELSE LET list == ActivateOnly(tabs, tabId)
            IN /\ activeTabId' = tabId
               /\ tabs' = list
               /\ stored' = StoredAfter(list, saved)
               /\ Dispatch(SaveEvents(saved) \o <<<<"tabActivated", tabId>>>>)
               /\ lastCall' = [op |-> "activateTab", id |-> tabId, outcome |-> "ok",
                               saved |-> SavedText(saved),
                               count |-> 0]
               /\ UNCHANGED <<windows, nextId, queue, clearCalls>>
    /\ UNCHANGED <<paletteVars, schemeVars, contrastVars, conversionVars>>

\* pinTab(tabId) for pinned = "true", unpinTab(tabId) for pinned = "false"
SetPinned(op, event, tabId, pinned, saved) ==
    /\ Counted
    /\ tabId \in CallIds
    /\ IF ~HasTab(tabs, tabId)
       THEN Throws(op, tabId, NotFound)
       ELSE LET list == [tabs EXCEPT ![FindIndex(tabs, tabId)] =
                                         ObjectAssign(@, [pinned |-> pinned])]
            IN /\ tabs' = list
               /\ stored' = StoredAfter(list, saved)
               /\ Dispatch(SaveEvents(saved) \o <<<<event, tabId>>>>)
               /\ lastCall' = [op |-> op, id |-> tabId, outcome |-> "ok",
                               saved |-> SavedText(saved),
                               count |-> 0]
               /\ UNCHANGED <<activeTabId, windows, nextId, queue, clearCalls>>
    /\ UNCHANGED <<paletteVars, schemeVars, contrastVars, conversionVars>>

PinTab(tabId, saved) == SetPinned("pinTab", "tabPinned", tabId, "true", saved)

UnpinTab(tabId, saved) == SetPinned("unpinTab", "tabUnpinned", tabId, "false", saved)

\* new Map(this.tabs.map(t => [t.id, t])).get(id): the last tab of the id
MapGet(list, id) ==
    IF \E i \in 1..Len(list) : Get(list[i], "id") = id
    THEN list[CHOOSE i \in 1..Len(list) :
                  /\ Get(list[i], "id") = id
                  /\ \A j \in (i + 1)..Len(list) : Get(list[j], "id") # id]
    ELSE Undefined

\* tabIds.map(id => tabMap.get(id)).filter(Boolean)
RECURSIVE Reordered(_, _)
Reordered(list, tabIds) ==
    IF Len(tabIds) = 0
    THEN <<>>
    ELSE (IF \E i \in 1..Len(list) : Get(list[i], "id") = tabIds[1]
          THEN <<MapGet(list, tabIds[1])>>
          ELSE <<>>) \o Reordered(list, Tail(tabIds))

Reverse(s) == [i \in 1..Len(s) |-> s[Len(s) + 1 - i]]

\* arguments of reorderTabs: the ids in reverse order, the ids but the first,
\* and a value that is no array
ReorderArguments ==
    {[array |-> TRUE, ids |-> Reverse(IdsOf(tabs))],
     [array |-> TRUE, ids |-> SubSeq(IdsOf(tabs), 2, Len(tabs))],
     [array |-> FALSE, ids |-> <<>>]}

\* reorderTabs(tabIds)
ReorderTabs(order, saved) ==
    /\ Counted
    /\ order \in ReorderArguments
    /\ IF ~order.array
       THEN Throws("reorderTabs", Null, NotAnArray)
       ELSE LET list == Reordered(tabs, order.ids)
            IN /\ tabs' = list
               /\ stored' = StoredAfter(list, saved)
               /\ Dispatch(SaveEvents(saved) \o <<<<"tabsReordered", Null>>>>)
               /\ lastCall' = [op |-> "reorderTabs", id |-> Null, outcome |-> "ok",
                               saved |-> SavedText(saved),
                               count |-> 0]
               /\ UNCHANGED <<activeTabId, windows, nextId, queue, clearCalls>>
    /\ UNCHANGED <<paletteVars, schemeVars, contrastVars, conversionVars>>

\* a tab of another TabManager
ForeignTab == [id |-> ForeignId, title |-> "A", url |-> "u", active |-> "true"]

\* arguments of importTabs: the output of exportTabs(), the export of another
\* manager, the JSON of an object and a text that is no JSON
ImportArguments ==
    {ArrayItem(JsonStringify(tabs)), ArrayItem(<<ForeignTab>>), ObjectItem, GarbageItem}

\* an import that puts the imported entries in front
ImportedInFront(list, importedTabs) == importedTabs \o list

\* this.tabs = [...this.tabs, ...importedTabs]
Imported(list, importedTabs) == list \o importedTabs

\* importTabs(data): dispatches no event; count is the importedTabs.length it
\* returns
ImportTabs(data, saved) ==
    /\ Counted
    /\ data \in ImportArguments
    /\ IF data.text # "array"
       THEN Throws("importTabs", Null, ImportFailed)
       ELSE LET list == Imported(tabs, data.items)
            IN /\ tabs' = list
               /\ stored' = StoredAfter(list, saved)
               /\ Dispatch(SaveEvents(saved))
               /\ lastCall' = [op |-> "importTabs", id |-> Null, outcome |-> "ok",
                               saved |-> SavedText(saved),
                               count |-> Len(data.items)]
               /\ UNCHANGED <<activeTabId, windows, nextId, queue, clearCalls>>
    /\ UNCHANGED <<paletteVars, schemeVars, contrastVars, conversionVars>>

\* a suspended call in the microtask queue
Continuation(kind, tab, call, rest, awaited) ==
    [kind |-> kind, tab |-> tab, call |-> call, rest |-> rest, awaited |-> awaited]

\* options of createTab: active given or left to its default, title or url missing
CreateOptions ==
    {[title |-> "A", url |-> "u"],
     [title |-> "A", url |-> "u", active |-> "false"],
     [url |-> "u"],
     [title |-> "A"]}

\* createTab(options) up to `await this.openBrowserTab(..)`: opened tells whether
\* window.open returned a window.  A blocked popup makes the awaited promise
\* reject; the catch block rethrows and nothing was changed.
StartCreateTab(op, options, opened) ==
    LET active == IF Get(options, "active") = Undefined
                  THEN "true" ELSE options.active
    IN IF ~Truthy(Get(options, "title")) \/ ~Truthy(Get(options, "url"))
       THEN Throws(op, Null, TitleAndUrlRequired)
       ELSE IF ~opened
            THEN Throws(op, Null, PopupBlocked)
            ELSE /\ nextId < MaxNewTabs
                 /\ nextId' = nextId + 1
                 /\ windows' = windows \cup {GeneratedIds[nextId + 1]}
                 /\ queue' = Append(queue,
                                Continuation("createTab",
                                    [id |-> GeneratedIds[nextId + 1],
                                     title |-> Get(options, "title"),
                                     url |-> Get(options, "url"),
                                     active |-> active],
                                    0, <<>>, "fulfilled"))
                 /\ lastCall' = [op |-> op, id |-> GeneratedIds[nextId + 1],
                                 outcome |-> "pending", saved |-> "none",
                                 count |-> 0]
                 /\ dispatched' = <<>>
                 /\ UNCHANGED <<tabs, activeTabId, stored, clearCalls, closedEvents,
                                mirror>>

\* createTab(options)
CreateTab(options, opened) ==
    /\ Counted
    /\ options \in CreateOptions
    /\ StartCreateTab("createTab", options, opened)
    /\ UNCHANGED <<paletteVars, schemeVars, contrastVars, conversionVars>>

\* duplicateTab(tabId): createTab with the tab's title and url and active: true
DuplicateTab(tabId, opened) ==
    /\ Counted
    /\ tabId \in CallIds
    /\ IF ~HasTab(tabs, tabId)
       THEN Throws("duplicateTab", tabId, NotFound)
       ELSE LET tab == tabs[FindIndex(tabs, tabId)]
            IN StartCreateTab("duplicateTab",
                              [title |-> Get(tab, "title"), url |-> Get(tab, "url"),
                               active |-> "true"],
                              opened)
    /\ UNCHANGED <<paletteVars, schemeVars, contrastVars, conversionVars>>

\* createTab after the await: the tab is pushed, saved and announced
CreateTabContinue(saved) ==
    /\ Len(queue) > 0
    /\ queue[1].kind = "createTab"
    /\ LET tab == queue[1].tab
           list == Append(tabs, tab)
       IN /\ tabs' = list
          /\ activeTabId' = IF Truthy(tab.active) THEN tab.id ELSE activeTabId
          /\ stored' = StoredAfter(list, saved)
          /\ Dispatch(SaveEvents(saved) \o <<<<"tabCreated", tab.id>>>>)
          /\ lastCall' = [op |-> "createTab", id |-> tab.id, outcome |-> "ok",
                          saved |-> SavedText(saved),
                          count |-> 0]
    /\ queue' = Tail(queue)
    /\ UNCHANGED <<windows, nextId, clearCalls, calls>>
    /\ UNCHANGED <<paletteVars, schemeVars, contrastVars, conversionVars>>

\* clearAllTabs() up to its first await: the ids are taken and the first tab is
\* closed; with no tab the call returns true at once
ClearAllTabs(saved) ==
    /\ Counted
    /\ Len(clearCalls) < MaxClearCalls
    /\ LET tabIds == IdsOf(tabs)
       IN IF Len(tabIds) = 0
          THEN /\ clearCalls' = Append(clearCalls, [ids |-> tabIds, outcome |-> "true"])
               /\ lastCall' = [op |-> "clearAllTabs", id |-> Null, outcome |-> "ok",
                               saved |-> "none",
                               count |-> 0]
               /\ dispatched' = <<>>
               /\ UNCHANGED <<tabs, activeTabId, stored, queue, closedEvents, mirror>>
          ELSE /\ clearCalls' = Append(clearCalls,
                                       [ids |-> tabIds, outcome |-> "pending"])
               /\ onTabClosed(tabIds[1], saved)
               /\ queue' = Append(queue,
                              Continuation("clearAllTabs", <<>>, Len(clearCalls) + 1,
                                           Tail(tabIds), "fulfilled"))
               /\ lastCall' = [op |-> "clearAllTabs", id |-> tabIds[1],
                               outcome |-> "pending", saved |-> SavedText(saved),
                               count |-> 0]
    /\ UNCHANGED <<windows, nextId>>
    /\ UNCHANGED <<paletteVars, schemeVars, contrastVars, conversionVars>>

\* clearAllTabs after an await: a rejected closeTab ends the call with its
\* error; otherwise the next id is closed, which throws for an id that is no
\* longer in the list, or the loop is over and the call returns true
ClearAllTabsContinue(saved) ==
    /\ Len(queue) > 0
    /\ queue[1].kind = "clearAllTabs"
    /\ LET call == queue[1].call
           rest == queue[1].rest
       IN IF queue[1].awaited = "rejected"
          THEN /\ clearCalls' = [clearCalls EXCEPT ![call].outcome = "rejected"]
               /\ queue' = Tail(queue)
               /\ lastCall' = [op |-> "clearAllTabs", id |-> Null,
                               outcome |-> NotFound, saved |-> "none",
                               count |-> 0]
               /\ dispatched' = <<>>
               /\ UNCHANGED <<tabs, activeTabId, stored, closedEvents, mirror>>
          ELSE IF Len(rest) = 0
               THEN /\ clearCalls' = [clearCalls EXCEPT ![call].outcome = "true"]
                    /\ queue' = Tail(queue)
                    /\ lastCall' = [op |-> "clearAllTabs", id |-> Null,
                                    outcome |-> "ok", saved |-> "none",
                                    count |-> 0]
                    /\ dispatched' = <<>>
                    /\ UNCHANGED <<tabs, activeTabId, stored, closedEvents, mirror>>
               ELSE /\ onTabClosed(rest[1], saved)
                    /\ queue' = Append(Tail(queue),
                                   Continuation("clearAllTabs", <<>>, call, Tail(rest),
                                       IF HasTab(tabs, rest[1])
                                       THEN "fulfilled" ELSE "rejected"))
                    /\ lastCall' = [op |-> "clearAllTabs", id |-> rest[1],
                                    outcome |-> "pending",
                                    saved |-> ClosedSaved(rest[1], saved),
                                    count |-> 0]
                    /\ UNCHANGED clearCalls
    /\ UNCHANGED <<windows, nextId, calls>>
    /\ UNCHANGED <<paletteVars, schemeVars, contrastVars, conversionVars>>

\* the tab a previous session left in the storage
StoredTabs == <<[id |-> StoredIds[1], title |-> "A", url |-> "u", active |-> "true"]>>

\* what the storage holds when the TabManager is constructed
StoredAtStart == {AbsentItem, GarbageItem, ArrayItem(StoredTabs)}

\* loadFromStorage(): the parsed array; [] when nothing is stored or parsing throws
LoadedTabs(item) == IF item.text = "array" THEN item.items ELSE <<>>

\* loadFromStorage(): the id of the first tab whose active is truthy, or null
LoadedActive(list) ==
    IF \E i \in 1..Len(list) : Truthy(Get(list[i], "active"))
    THEN Get(list[CHOOSE i \in 1..Len(list) :
                      /\ Truthy(Get(list[i], "active"))
                      /\ \A j \in 1..(i - 1) : ~Truthy(Get(list[j], "active"))], "id")
    ELSE Null

\* updates the model passes to updateTab
UpdateArguments == {[active |-> "true"], [title |-> Undefined]}

\* new TabManager(), and the example listener list initialised from getAllTabs()
TabInit ==
    /\ InitPalette /\ InitScheme /\ InitContrast /\ InitConversion
    /\ stored \in StoredAtStart
    /\ tabs = LoadedTabs(stored)
    /\ activeTabId = LoadedActive(LoadedTabs(stored))
    /\ windows = {}
    /\ nextId = 0
    /\ queue = <<>>
    /\ clearCalls = <<>>
    /\ closedEvents = [id \in TabIds |-> 0]
    /\ mirror = IdsOf(LoadedTabs(stored))
    /\ dispatched = <<>>
    /\ lastCall = NoCall
    /\ calls = 0

TabNext ==
    \/ \E options \in CreateOptions, opened \in BOOLEAN : CreateTab(options, opened)
    \/ \E saved \in BOOLEAN : CreateTabContinue(saved)
    \/ \E tabId \in TabIds \cup {UnknownId}, updates \in UpdateArguments,
          saved \in BOOLEAN : UpdateTab(tabId, updates, saved)
    \/ \E tabId \in TabIds \cup {UnknownId}, saved \in BOOLEAN : CloseTab(tabId, saved)
    \/ \E tabId \in TabIds, saved \in BOOLEAN : OnWindowClosed(tabId, saved)
    \/ \E tabId \in TabIds \cup {UnknownId}, saved \in BOOLEAN : ActivateTab(tabId, saved)
    \/ \E order \in ReorderArguments, saved \in BOOLEAN : ReorderTabs(order, saved)
    \/ \E tabId \in TabIds \cup {UnknownId}, opened \in BOOLEAN :
           DuplicateTab(tabId, opened)
    \/ \E tabId \in TabIds \cup {UnknownId}, saved \in BOOLEAN : PinTab(tabId, saved)
    \/ \E tabId \in TabIds \cup {UnknownId}, saved \in BOOLEAN : UnpinTab(tabId, saved)
    \/ \E saved \in BOOLEAN : ClearAllTabs(saved)
    \/ \E saved \in BOOLEAN : ClearAllTabsContinue(saved)
    \/ \E data \in ImportArguments, saved \in BOOLEAN : ImportTabs(data, saved)

TabSpec == TabInit /\ [][TabNext]_vars

\* an instance on which only createTab, activateTab and closeTab are called
ReloadNext ==
    \/ \E options \in CreateOptions, opened \in BOOLEAN : CreateTab(options, opened)
    \/ \E saved \in BOOLEAN : CreateTabContinue(saved)
    \/ \E tabId \in TabIds \cup {UnknownId}, saved \in BOOLEAN : ActivateTab(tabId, saved)
    \/ \E tabId \in TabIds \cup {UnknownId}, saved \in BOOLEAN : CloseTab(tabId, saved)

ReloadSpec == TabInit /\ [][ReloadNext]_vars

----------------------------------------------------------------------------
(* Properties of the palette extractor. *)

\* 0-based row-major indexes of the pixels the sampling policy examines
SampledIndexes(image) == {p \in 0..(Len(image) - 1) : p % 10 = 0}

\* the multiple of 16 nearest to v, the upper one when v is halfway
Nearest16(v) == CHOOSE q \in {16 * k : k \in 0..16} : q - 8 <= v /\ v < q + 8

BucketOf(pixel) == <<Nearest16(pixel[1]), Nearest16(pixel[2]), Nearest16(pixel[3])>>

\* sampled pixels that are not transparent
Qualifying(image) == {p \in SampledIndexes(image) : image[p + 1][4] >= 128}

BucketsOf(image) == {BucketOf(image[p + 1]) : p \in Qualifying(image)}

\* index of the first qualifying pixel of a bucket
FirstSeen(image, bucket) ==
    CHOOSE p \in Qualifying(image) :
        /\ BucketOf(image[p + 1]) = bucket
        /\ \A q \in Qualifying(image) : BucketOf(image[q + 1]) = bucket => p <= q

EntryBucket(e) == <<e.r, e.g, e.b>>

IsHexColor(text) ==
    /\ Len(text) = 7
    /\ text[1] = "#"
    /\ \A k \in 2..7 : \E d \in 1..16 : HexDigits[d] = text[k]

Extracted == extractResult # "none"

\* C1: extractColors on an image whose sampled pixels all have alpha < 128 ends
\* with a distinct "no colours found" result, an empty palette and no dominant
\* colour, and does not throw.
C1_TransparentGivesEmptyPalette ==
    (Extracted /\ Qualifying(extractedImage) = {})
        => /\ extractResult # "TypeError"
           /\ extractedColors = <<>>
           /\ dominantColor = NoText

\* C2: every colour the extractor emits (the dominant colour and each entry of
\* the palette) has its channels in 0..255 and a hex form of '#' and exactly six
\* hex digits.
C2_EmittedColorsAreValid ==
    extractResult = "ok"
        => /\ IsHexColor(dominantColor)
           /\ \A k \in 1..Len(extractedColors) : IsHexColor(extractedColors[k].hex)
           /\ \A k \in 1..Len(sortedColors) :
                  \A c \in 1..3 : EntryBucket(sortedColors[k])[c] \in 0..255

\* an image of one colour, fully opaque
IsUniformOpaque(image) ==
    /\ Len(image) >= 1
    /\ image[1][4] = 255
    /\ \A p \in 1..Len(image) : image[p] = image[1]

\* C3: on a uniform fully opaque image the palette has exactly one entry and the
\* dominant colour is the image's colour with each channel at the nearest
\* multiple of 16.
C3_UniformImageGivesItsColor ==
    (Extracted /\ IsUniformOpaque(extractedImage))
        => /\ extractResult = "ok"
           /\ Len(extractedColors) = 1
           /\ \A c \in 1..3 :
                  LET d == HexChannels(dominantColor)[c]
                      v == extractedImage[1][c]
                  IN d % 16 = 0 /\ d - v <= 8 /\ v - d <= 8

\* C4: the buckets are in descending order of count, buckets of equal count in
\* the order their first qualifying pixel comes in the image.
C4_DescendingCountStableOnTies ==
    Extracted
        => \A i, j \in 1..Len(sortedColors) :
              i < j =>
                  \/ sortedColors[i].count > sortedColors[j].count
                  \/ /\ sortedColors[i].count = sortedColors[j].count
                     /\ FirstSeen(extractedImage, EntryBucket(sortedColors[i]))
                            < FirstSeen(extractedImage, EntryBucket(sortedColors[j]))

\* a sort that kept a tie in first-seen order and moved a later bucket ahead
C4_Witness ==
    /\ extractResult = "ok"
    /\ \E i, j \in 1..Len(sortedColors) :
           i < j /\ sortedColors[i].count = sortedColors[j].count
    /\ \E i, j \in 1..Len(sortedColors) :
           /\ i < j
           /\ sortedColors[i].count > sortedColors[j].count
           /\ FirstSeen(extractedImage, EntryBucket(sortedColors[i]))
                  > FirstSeen(extractedImage, EntryBucket(sortedColors[j]))

\* C5: with n >= 1 buckets the palette has min(10, n) entries, the first
\* min(10, n) buckets of the sorted order, and the dominant colour is the colour
\* of the first entry.
C5_TopTenOfSortedOrder ==
    extractResult = "ok"
        => LET n == Cardinality(BucketsOf(extractedImage))
               m == IF n < 10 THEN n ELSE 10
           IN /\ n >= 1
              /\ Len(extractedColors) = m
              /\ \A k \in 1..m :
                     LET c == sortedColors[k]
                     IN /\ extractedColors[k].hex = rgbToHex(c.r, c.g, c.b)
                        /\ extractedColors[k].rgb = RgbText(c.r, c.g, c.b)
              /\ dominantColor = extractedColors[1].hex

\* an image of more than ten buckets, cut to ten, and one of fewer, kept whole
C5_Witness ==
    /\ extractResult = "ok"
    /\ Cardinality(BucketsOf(extractedImage)) > 10
    /\ Len(extractedColors) = 10

\* C6: the count of a bucket is the number of pixels at an index that is a
\* multiple of 10, with alpha >= 128, that quantize to the bucket; every such
\* bucket is listed once and no other is.
C6_CountsAreSampledOpaquePixels ==
    Extracted
        => /\ {EntryBucket(sortedColors[k]) : k \in 1..Len(sortedColors)}
                  = BucketsOf(extractedImage)
           /\ \A i, j \in 1..Len(sortedColors) :
                  EntryBucket(sortedColors[i]) = EntryBucket(sortedColors[j]) => i = j
           /\ \A k \in 1..Len(sortedColors) :
                  sortedColors[k].count
                      = Cardinality({p \in 0..(Len(extractedImage) - 1) :
                            /\ p % 10 = 0
                            /\ extractedImage[p + 1][4] >= 128
                            /\ BucketOf(extractedImage[p + 1])
                                   = EntryBucket(sortedColors[k])})

\* an image with a sampled pixel of alpha 128 that is counted, a sampled pixel of
\* alpha 127, and an opaque pixel of a listed bucket at an index that is not sampled
C6_Witness ==
    /\ extractResult = "ok"
    /\ \E p \in SampledIndexes(extractedImage) : extractedImage[p + 1][4] = 128
    /\ \E p \in SampledIndexes(extractedImage) : extractedImage[p + 1][4] = 127
    /\ \E p \in 0..(Len(extractedImage) - 1) :
           /\ p % 10 # 0
           /\ extractedImage[p + 1][4] >= 128
           /\ \E k \in 1..Len(sortedColors) :
                  BucketOf(extractedImage[p + 1]) = EntryBucket(sortedColors[k])

----------------------------------------------------------------------------
(* Properties of the scheme generator. *)

Generated == schemeResult # "none"

SchemeNames == [k \in 1..Len(currentScheme) |-> currentScheme[k].name]

\* the role labels as the specification's table spells them
TableLabels(kind) ==
    CASE kind = "complementary" -> <<"Base", "Complementary">>
      [] kind = "analogous" ->
            <<"Analogous1", "Analogous2", "Base", "Analogous3", "Analogous4">>
      [] kind = "triadic" -> <<"Primary", "Secondary", "Tertiary">>
      [] kind = "tetradic" -> <<"Primary", "Secondary", "Tertiary", "Quaternary">>
      [] kind = "monochromatic" ->
            <<"Dark", "MediumDark", "Base", "MediumLight", "Light">>
      [] kind = "split-complementary" -> <<"Base", "Split1", "Split2">>

\* the same roles, the multi-word labels written with one space
SpacedLabels(kind) ==
    CASE kind = "complementary" -> <<"Base", "Complementary">>
      [] kind = "analogous" ->
            <<"Analogous 1", "Analogous 2", "Base", "Analogous 3", "Analogous 4">>
      [] kind = "triadic" -> <<"Primary", "Secondary", "Tertiary">>
      [] kind = "tetradic" -> <<"Primary", "Secondary", "Tertiary", "Quaternary">>
      [] kind = "monochromatic" ->
            <<"Dark", "Medium Dark", "Base", "Medium Light", "Light">>
      [] kind = "split-complementary" -> <<"Base", "Split 1", "Split 2">>

\* C7 as claimed: for each of the six kinds the scheme has exactly the entries
\* of the table, labelled Base, Complementary / Analogous1, Analogous2, Base,
\* Analogous3, Analogous4 / Primary, Secondary, Tertiary / Primary, Secondary,
\* Tertiary, Quaternary / Dark, MediumDark, Base, MediumLight, Light / Base,
\* Split1, Split2, in this order.
C7_LabelsOfTheTable ==
    (Generated /\ schemeInput.type \in SchemeKinds)
        => SchemeNames = TableLabels(schemeInput.type)

\* C7 as amended: the scheme has 2, 5, 3, 4, 5 and 3 entries in the order of the
\* table, and the multi-word labels are 'Analogous 1'..'Analogous 4', 'Medium
\* Dark', 'Medium Light', 'Split 1', 'Split 2', with a space.
C7_LabelsWithSpaces ==
    (Generated /\ schemeInput.type \in SchemeKinds)
        => /\ SchemeNames = SpacedLabels(schemeInput.type)
           /\ Len(currentScheme) = Len(TableLabels(schemeInput.type))

\* a split-complementary scheme and its three entries
C7_Witness ==
    /\ Generated
    /\ schemeInput.type = "split-complementary"
    /\ Len(currentScheme) = 3
    /\ currentScheme[3].name = "Split 2"

\* hue offsets of the table; 0 is the entry that is the base colour
HueOffsets(kind) ==
    CASE kind = "complementary" -> <<0, 180>>
      [] kind = "analogous" -> <<-30, -15, 0, 15, 30>>
      [] kind = "triadic" -> <<0, 120, 240>>
      [] kind = "tetradic" -> <<0, 90, 180, 270>>
      [] kind = "split-complementary" -> <<0, 150, 210>>

\* lightness of the monochromatic entries; 0 is the entry that is the base colour
MonoLightness == <<20, 40, 0, 70, 90>>

\* h is x modulo 360: in [0, 360) and a multiple of 360 away from x
IsMod360(h, x) ==
    /\ RatLeq(Whole(0), h)
    /\ RatLess(h, Whole(360))
    /\ \E q \in -2..2 : RatSub(x, h) = Whole(360 * q)

\* C8: every hue passed to hslToHex is (base hue + offset) mod 360 and in
\* [0, 360); the entries of the other kinds keep the base's saturation and
\* lightness; the monochromatic entries keep its hue and saturation and have
\* lightness 20, 40, base, 70, 90.
C8_HuesWrapAndRestIsKept ==
    (Generated /\ schemeInput.type \in SchemeKinds)
        => LET base == hexToHsl(schemeInput.hex)
               kind == schemeInput.type
               n == Len(schemeCalls)
           IN IF kind = "monochromatic"
              THEN /\ n = Len(MonoLightness)
                   /\ \A k \in 1..n :
                          IF MonoLightness[k] = 0
                          THEN /\ ~schemeCalls[k].converted
                               /\ schemeCalls[k].hex = schemeInput.hex
                          ELSE /\ schemeCalls[k].converted
                               /\ schemeCalls[k].h = base.h
                               /\ schemeCalls[k].s = base.s
                               /\ schemeCalls[k].l = Whole(MonoLightness[k])
                               /\ RatLeq(Whole(0), schemeCalls[k].h)
                               /\ RatLess(schemeCalls[k].h, Whole(360))
              ELSE /\ n = Len(HueOffsets(kind))
                   /\ \A k \in 1..n :
                          IF HueOffsets(kind)[k] = 0
                          THEN /\ ~schemeCalls[k].converted
                               /\ schemeCalls[k].hex = schemeInput.hex
                          ELSE /\ schemeCalls[k].converted
                               /\ IsMod360(schemeCalls[k].h,
                                           RatAdd(base.h, Whole(HueOffsets(kind)[k])))
                               /\ schemeCalls[k].s = base.s
                               /\ schemeCalls[k].l = base.l

\* an analogous scheme of a base hue below 15 degrees: both negative offsets wrap
C8_Witness ==
    /\ Generated
    /\ schemeInput.type = "analogous"
    /\ RatLess(hexToHsl(schemeInput.hex).h, Whole(15))
    /\ RatLess(Whole(0), hexToHsl(schemeInput.hex).s)
    /\ RatLeq(Whole(330), schemeCalls[1].h)
    /\ RatLeq(Whole(345), schemeCalls[2].h)

\* C9: generateScheme with a kind that is none of the six fails with
\* UnsupportedSchemeKind, and leaves no empty or partial scheme behind as if it
\* had succeeded.
C9_UnknownKindFails ==
    (Generated /\ schemeInput.type \notin SchemeKinds)
        => schemeResult = "UnsupportedSchemeKind"

----------------------------------------------------------------------------
(* Properties of the contrast check. *)

FlagsShown == passFlags # <<>>

\* C10: for every ratio n / d the flags are AA-normal iff ratio >= 4.5,
\* AA-large iff ratio >= 3, AAA-normal iff ratio >= 7, AAA-large iff ratio >= 4.5;
\* so AAA-large equals AA-normal, AAA-normal implies AA-normal, AA-normal implies
\* AA-large, and the ratios 3, 4.5 and 7 themselves pass.
C10_PassFlagsFollowThresholds ==
    FlagsShown
        => LET n == ratio[1]
               d == ratio[2]
           IN /\ passFlags.aaNormal <=> 2 * n >= 9 * d
              /\ passFlags.aaLarge <=> n >= 3 * d
              /\ passFlags.aaaNormal <=> n >= 7 * d
              /\ passFlags.aaaLarge <=> 2 * n >= 9 * d
              /\ passFlags.aaaLarge = passFlags.aaNormal
              /\ passFlags.aaaNormal => passFlags.aaNormal
              /\ passFlags.aaNormal => passFlags.aaLarge
              /\ ratio = <<3, 1>> => passFlags.aaLarge
              /\ ratio = <<9, 2>> => passFlags.aaNormal /\ passFlags.aaaLarge
              /\ ratio = <<7, 1>> => passFlags.aaaNormal

\* the ratio 4.5 exactly: both 4.5 flags pass, AAA-normal fails
C10_Witness ==
    /\ FlagsShown
    /\ ratio = <<9, 2>>
    /\ passFlags.aaNormal
    /\ passFlags.aaaLarge
    /\ passFlags.aaLarge
    /\ ~passFlags.aaaNormal

----------------------------------------------------------------------------
(* Properties of the contrast check of two colours. *)

Checked == contrastInput # <<>>

Black == <<"#", "0", "0", "0", "0", "0", "0">>
White == <<"#", "f", "f", "f", "f", "f", "f">>
Grey77 == <<"#", "7", "7", "7", "7", "7", "7">>
Grey88 == <<"#", "8", "8", "8", "8", "8", "8">>

AllFlags(value) ==
    /\ passFlags.aaNormal = value
    /\ passFlags.aaLarge = value
    /\ passFlags.aaaNormal = value
    /\ passFlags.aaaLarge = value

\* C11: for every pair of colours the ratio is >= 1 and <= 21, it is 1 when the
\* two colours are equal, and it is the ratio of the same two colours with
\* foreground and background swapped.
C11_RatioBoundedAndSymmetric ==
    Checked
        => /\ RatLeq(Whole(1), ratio)
           /\ RatLeq(ratio, Whole(21))
           /\ contrastInput[1] = contrastInput[2] => ratio = Whole(1)
           /\ \A fl, bl \in {fgLum, bgLum} :
                  (fl # bl /\ RatLess(fl, bl))
                      => ratio = RatDiv(RatAdd(bl, <<1, 20>>), RatAdd(fl, <<1, 20>>))

\* a foreground darker than the background: the luminances are taken in the
\* other order than they were given
C11_Witness ==
    /\ Checked
    /\ RatLess(fgLum, bgLum)
    /\ RatLess(Whole(1), ratio)
    /\ RatLess(ratio, Whole(21))

\* C12: black on white has the luminances exactly 0 and 1, the ratio 21, shown
\* as 21.00, and all four flags pass.
C12_BlackOnWhite ==
    (Checked /\ contrastInput = <<Black, White>>)
        => /\ fgLum = Whole(0)
           /\ bgLum = Whole(1)
           /\ ratio = Whole(21)
           /\ ratioDisplay = <<"2", "1", ".", "0", "0">>
           /\ AllFlags(TRUE)

C12_Witness ==
    /\ Checked
    /\ contrastInput = <<Black, White>>
    /\ ratioDisplay = <<"2", "1", ".", "0", "0">>
    /\ passFlags.aaaNormal

\* C13 as claimed: #777777 on #888888 has a ratio strictly below 1.2 and all
\* four flags fail.
C13_GreysBelowOnePointTwo ==
    (Checked /\ contrastInput = <<Grey77, Grey88>>)
        => /\ RatLess(ratio, <<12, 10>>)
           /\ AllFlags(FALSE)

\* C13 as amended: #777777 on #888888 has a ratio of 1.2 or more and strictly
\* below 1.3 (1.26 to two decimals), and all four flags fail.
C13_GreysBelowOnePointThree ==
    (Checked /\ contrastInput = <<Grey77, Grey88>>)
        => /\ RatLeq(<<12, 10>>, ratio)
           /\ RatLess(ratio, <<13, 10>>)
           /\ ratioDisplay = <<"1", ".", "2", "6">>
           /\ AllFlags(FALSE)

C13_Witness ==
    /\ Checked
    /\ contrastInput = <<Grey77, Grey88>>
    /\ RatLess(fgLum, bgLum)
    /\ ~passFlags.aaLarge

----------------------------------------------------------------------------
(* Properties of the conversions. *)

\* String.prototype.toLowerCase of a text of hex digits
LowerCase(text) ==
    [k \in 1..Len(text) |->
        IF \E d \in 11..16 : UpperHexDigits[d] = text[k]
        THEN HexDigits[CHOOSE d \in 11..16 : UpperHexDigits[d] = text[k]]
        ELSE text[k]]

Rendered == convHex # NoText

\* C14 as claimed: for every text x of '#' and six hex digits, lowercase or
\* uppercase, rgbToHex of the parsed channels is exactly x.
C14_RenderedIsTheInput == Rendered => convHex = convInput

\* C14 as amended: rgbToHex of the parsed channels is x with its digits in
\* lowercase; it is exactly x when x has no uppercase digit.
C14_RenderedIsTheInputInLowerCase ==
    Rendered
        => /\ convHex = LowerCase(convInput)
           /\ (\A k \in 1..Len(convInput) : \A d \in 11..16 :
                   convInput[k] # UpperHexDigits[d]) => convHex = convInput

\* a text with an uppercase digit and a channel below 16, rendered
C14_Witness ==
    /\ Rendered
    /\ convInput # LowerCase(convInput)
    /\ \E c \in 1..3 : convChannels[c] < 16 /\ convChannels[c] > 0
    /\ Len(convHex) = 7

ConvertedBack == convBack # NoText

\* C15: converting a colour to HSL and back gives a colour that differs from it
\* by at most 1 in each channel.
C15_RoundTripWithinOne ==
    ConvertedBack
        => /\ IsHexColor(convBack)
           /\ \A c \in 1..3 :
                  Abs(HexChannels(convBack)[c] - HexChannels(convInput)[c]) <= 1

\* a colour of three different channels, none of them 0 or 255, converted back
C15_Witness ==
    /\ ConvertedBack
    /\ Cardinality({HexChannels(convInput)[c] : c \in 1..3}) = 3
    /\ \A c \in 1..3 : HexChannels(convInput)[c] \notin {0, 255}
    /\ RatLess(Whole(0), convHsl.s)

----------------------------------------------------------------------------
(* Results held between calls. *)

\* C16: the result of each top-level operation depends only on its own input,
\* whatever was called before, failed calls included: the palette held for
\* export is the one of the image of the most recent extraction, the scheme held
\* is the one of the base colour and kind of the most recent generation, and the
\* ratio shown is the one of the two colours of the most recent check.
C16_HeldResultsAreOfTheLastCall ==
    /\ Extracted
           => /\ Len(extractedColors)
                     = (IF Len(sortedColors) < 10 THEN Len(sortedColors) ELSE 10)
              /\ \A k \in 1..Len(extractedColors) :
                     /\ k <= Len(sortedColors)
                     /\ extractedColors[k].rgb
                            = RgbText(sortedColors[k].r, sortedColors[k].g,
                                      sortedColors[k].b)
              /\ {EntryBucket(sortedColors[k]) : k \in 1..Len(sortedColors)}
                     = BucketsOf(extractedImage)
    /\ (Generated /\ schemeInput.type \in SchemeKinds)
           => /\ Len(currentScheme) = Len(TableLabels(schemeInput.type))
              /\ \A k \in 1..Len(currentScheme) :
                     currentScheme[k].name \in {"Base", "Primary"}
                         => currentScheme[k].hex = schemeInput.hex
    /\ Checked
           => LET l1 == getLuminance(contrastInput[1])
                  l2 == getLuminance(contrastInput[2])
              IN ratio = RatDiv(RatAdd(RatMax(l1, l2), <<1, 20>>),
                                RatAdd(RatMin(l1, l2), <<1, 20>>))

----------------------------------------------------------------------------
(* Properties of the TabManager. *)

\* the operations that change the list of tabs
MutatingOperations ==
    {"createTab", "updateTab", "closeTab", "activateTab", "reorderTabs", "pinTab",
     "unpinTab", "importTabs"}

\* the last step completed the operation op
Completed(op) == lastCall.op = op /\ lastCall.outcome = "ok"

\* C17: when a mutating operation (createTab, updateTab, closeTab,
\* activateTab, reorderTabs, pinTab, unpinTab, importTabs) has completed and its
\* write to localStorage succeeded, the item stored under storageKey is the JSON
\* serialization of the list of tabs as it is now.
C17_StoredIsTheSerializedList ==
    (lastCall.op \in MutatingOperations /\ lastCall.outcome = "ok"
         /\ lastCall.saved = "ok")
        => stored = ArrayItem(JsonStringify(tabs))

\* updateTab has stored a list whose serialization differs from the list: a
\* title that was set to undefined is not written
C17_Witness ==
    /\ Completed("updateTab")
    /\ lastCall.saved = "ok"
    /\ \E i \in 1..Len(tabs) :
           /\ "title" \in DOMAIN tabs[i]
           /\ tabs[i].title = Undefined
           /\ "title" \notin DOMAIN stored.items[i]

\* C18: a clearAllTabs call resolves true: it never ends rejected, also when
\* other closes of the same tabs (a second clearAllTabs, a closeTab, a closed
\* window) come between its steps.
C18_ClearAllTabsResolvesTrue ==
    \A c \in 1..Len(clearCalls) : clearCalls[c].outcome # "rejected"

\* C19: the list the example listeners keep (started from getAllTabs(),
\* appended to on tabCreated, filtered by id on tabClosed) holds exactly the ids
\* of the tabs of the TabManager.
C19_MirrorHoldsTheIds ==
    {mirror[k] : k \in 1..Len(mirror)} = {Get(tabs[i], "id") : i \in 1..Len(tabs)}

\* C20: when activateTab(id) has completed for a tracked id, activeTabId is id,
\* the tab has active = true, every other tab of the list has active = false,
\* getActiveTab() returns the tab, and exactly one tabActivated event was
\* dispatched.
C20_ActivatedTabIsTheOnlyActive ==
    Completed("activateTab")
        => /\ activeTabId = lastCall.id
           /\ HasTab(tabs, lastCall.id)
           /\ \A i \in 1..Len(tabs) :
                  Get(tabs[i], "active")
                      = (IF i = FindIndex(tabs, lastCall.id) THEN "true" ELSE "false")
           /\ getActiveTab(tabs, activeTabId) = tabs[FindIndex(tabs, lastCall.id)]
           /\ Cardinality({k \in 1..Len(dispatched) :
                               dispatched[k][1] = "tabActivated"}) = 1

\* C21: closeTab(id) for a tracked id removes exactly that tab and keeps the
\* other tabs in their order; activeTabId becomes the id of the last remaining
\* tab (null when none remains) if it was id, and is unchanged otherwise.
C21_CloseRemovesThatTabOnly ==
    [][\A tabId \in {lastCall'.id}, saved \in BOOLEAN :
           (lastCall'.op = "closeTab" /\ HasTab(tabs, tabId) /\ CloseTab(tabId, saved))
               => /\ lastCall'.outcome = "ok"
                  /\ Len(tabs') = Len(tabs) - 1
                  /\ \E index \in 1..Len(tabs) :
                         /\ Get(tabs[index], "id") = tabId
                         /\ \A j \in 1..Len(tabs') :
                                tabs'[j] = (IF j < index THEN tabs[j] ELSE tabs[j + 1])
                  /\ activeTabId'
                         = (IF activeTabId # tabId
                            THEN activeTabId
                            ELSE IF Len(tabs') = 0
                                 THEN Null
                                 ELSE Get(tabs'[Len(tabs')], "id"))]_vars

\* closeTab has closed the active tab and the last of the remaining tabs, whose
\* own flag is false, is the active one now
C21_Witness ==
    /\ Completed("closeTab")
    /\ Len(tabs) > 1
    /\ activeTabId = Get(tabs[Len(tabs)], "id")
    /\ Get(tabs[Len(tabs)], "active") = "false"

\* the operations that take the id of a tab
IdTakingOperations ==
    {"updateTab", "closeTab", "activateTab", "duplicateTab", "pinTab", "unpinTab"}

\* a call of an id-taking operation with the id tabId
IdTakingCall(tabId) ==
    \/ \E updates \in UpdateArguments, saved \in BOOLEAN :
           UpdateTab(tabId, updates, saved)
    \/ \E saved \in BOOLEAN : CloseTab(tabId, saved)
    \/ \E saved \in BOOLEAN : ActivateTab(tabId, saved)
    \/ \E opened \in BOOLEAN : DuplicateTab(tabId, opened)
    \/ \E saved \in BOOLEAN : PinTab(tabId, saved)
    \/ \E saved \in BOOLEAN : UnpinTab(tabId, saved)

\* C22: updateTab, closeTab, activateTab, duplicateTab, pinTab and unpinTab
\* called with an id that is not in the list fail with 'Tab with ID <id> not
\* found', leave the list, activeTabId and the stored item as they were and
\* dispatch no event.
C22_UnknownIdFailsAndChangesNothing ==
    [][\A tabId \in {lastCall'.id} :
           (lastCall'.op \in IdTakingOperations /\ ~HasTab(tabs, tabId)
                /\ IdTakingCall(tabId))
               => /\ lastCall'.outcome = NotFound
                  /\ UNCHANGED <<tabs, activeTabId, stored>>
                  /\ dispatched' = <<>>]_vars

\* an id-taking operation has failed for an id that is not in a list of tabs
C22_Witness ==
    /\ lastCall.op \in IdTakingOperations
    /\ lastCall.outcome = NotFound
    /\ Len(tabs) > 0
    /\ ~HasTab(tabs, lastCall.id)

\* C23: createTab without a title or a url rejects with 'Title and URL are
\* required parameters', createTab whose window.open returns no window rejects
\* with 'Popup blocked ..'; either way the list, activeTabId and the stored
\* item are as they were, no tabCreated event is dispatched and nothing of
\* the call is left waiting.
C23_RejectedCreateChangesNothing ==
    [][\A options \in (IF lastCall'.op = "createTab" THEN CreateOptions ELSE {}),
          opened \in BOOLEAN :
           (CreateTab(options, opened)
                /\ ({"title", "url"} \ DOMAIN options # {} \/ ~opened))
               => /\ lastCall'.outcome
                         = (IF {"title", "url"} \ DOMAIN options # {}
                            THEN TitleAndUrlRequired
                            ELSE PopupBlocked)
                  /\ UNCHANGED <<tabs, activeTabId, stored, queue>>
                  /\ \A k \in 1..Len(dispatched') : dispatched'[k][1] # "tabCreated"]_vars

\* createTab was rejected for a blocked popup while tabs are tracked
C23_Witness ==
    /\ lastCall.op = "createTab"
    /\ lastCall.outcome = PopupBlocked
    /\ Len(tabs) > 0

\* C24: importTabs(data) with the JSON of an array appends the imported entries
\* after the tabs of the list, in order, and returns their number; with data
\* that is no JSON or no array it throws an error starting 'Failed to import
\* tabs' and leaves the list and the stored item as they were.
C24_ImportAppendsOrFails ==
    [][\A data \in (IF lastCall'.op = "importTabs" THEN ImportArguments ELSE {}),
          saved \in BOOLEAN :
           ImportTabs(data, saved)
               => IF data.text = "array"
                  THEN /\ lastCall'.outcome = "ok"
                       /\ lastCall'.count = Len(data.items)
                       /\ Len(tabs') = Len(tabs) + Len(data.items)
                       /\ SubSeq(tabs', 1, Len(tabs)) = tabs
                       /\ SubSeq(tabs', Len(tabs) + 1, Len(tabs')) = data.items
                  ELSE /\ lastCall'.outcome = ImportFailed
                       /\ UNCHANGED <<tabs, stored>>]_vars

\* importTabs has appended the one tab of another manager to a list of tabs
C24_Witness ==
    /\ Completed("importTabs")
    /\ lastCall.count = 1
    /\ Len(tabs) > 1
    /\ Get(tabs[Len(tabs)], "id") = ForeignId
    /\ Get(tabs[1], "id") # ForeignId

\* two lists hold the same tabs, each as many times
SameTabs(a, b) ==
    /\ Len(a) = Len(b)
    /\ \A i \in 1..Len(b) :
           Cardinality({j \in 1..Len(a) : a[j] = b[i]})
               = Cardinality({j \in 1..Len(b) : b[j] = b[i]})

\* C25: reorderTabs(tabIds) given the ids of the tabs of the list in some order
\* leaves and stores the same tabs (none added, dropped or repeated) in that
\* order; given a value that is no array it throws 'tabIds must be an array'
\* and changes nothing.
C25_ReorderKeepsTheTabs ==
    [][\A order \in (IF lastCall'.op = "reorderTabs" THEN ReorderArguments ELSE {}),
          saved \in BOOLEAN :
           ReorderTabs(order, saved)
               => IF ~order.array
                  THEN /\ lastCall'.outcome = NotAnArray
                       /\ UNCHANGED <<tabs, activeTabId, stored>>
                  ELSE SameTabs(order.ids, IdsOf(tabs))
                           => /\ IdsOf(tabs') = order.ids
                              /\ SameTabs(tabs', tabs)
                              /\ saved => stored' = ArrayItem(JsonStringify(tabs'))]_vars

\* the tabs getFilteredTabs({active: true}) returns and getStatistics().active counts
ActiveTabs == {i \in 1..Len(tabs) : Truthy(Get(tabs[i], "active"))}

\* C26: at most one tab of the list has active = true.
C26_AtMostOneActive == Cardinality(ActiveTabs) <= 1

\* C27: activeTabId is null or the id of a tab of the list.
C27_ActiveTabIdIsTracked == activeTabId = Null \/ HasTab(tabs, activeTabId)

\* C28: the ids of the tabs of the list are pairwise distinct.
C28_IdsAreDistinct ==
    \A i, j \in 1..Len(tabs) : i # j => Get(tabs[i], "id") # Get(tabs[j], "id")

\* the ids generateTabId can have given to a created tab
CreatedIds == {GeneratedIds[k] : k \in 1..Len(GeneratedIds)}

\* C29: for a created tab the tabClosed event is dispatched at most once and
\* the tab is removed at most once: of closeTab(id) and the beforeunload callback
\* of its window, the one that comes after a tabClosed event of that id changes
\* no state and dispatches nothing.
C29_SecondCloseIsNoOp ==
    [][\A tabId \in {lastCall'.id} :
           (lastCall'.op \in {"closeTab", "beforeunload"} /\ tabId \in CreatedIds
                /\ closedEvents[tabId] >= 1)
               => /\ UNCHANGED <<tabs, activeTabId, stored, closedEvents>>
                  /\ dispatched' = <<>>]_vars

\* the id of the tab getActiveTab() returns, Null when it returns none
ActiveId(list, active) == IF HasTab(list, active) THEN active ELSE Null

\* C30: when the last write to the storage succeeded, a new TabManager
\* constructed from the stored item has the tabs of this one, in the same
\* order, and getActiveTab() gives a tab of the same id.
C30_ReloadGivesTheSameTabs ==
    (lastCall.outcome = "ok" /\ lastCall.saved = "ok")
        => /\ LoadedTabs(stored) = tabs
           /\ ActiveId(LoadedTabs(stored), LoadedActive(LoadedTabs(stored)))
                  = ActiveId(tabs, activeTabId)

====
